---------------------------- MODULE Spec2Model ----------------------------
(***************************************************************************)
(* A model of the lightway proxy pipeline.  The repository holds two       *)
(* stacks that implement the same pipeline:                                *)
(*   impl = "netway": crates/netway (socks5.rs, socks5/protocol.rs) with   *)
(*                    the policy dialer of src/rule/mod.rs;                *)
(*   impl = "socks" : proxy-socks (server.rs, types.rs) with the policy    *)
(*                    dialer of proxy-io/src/stream.rs and the rules of    *)
(*                    proxy-rules/src/lib.rs.                              *)
(* Strings the code inspects character by character (host names, the      *)
(* display form of a destination) are sequences of one-character strings.  *)
(***************************************************************************)
EXTENDS Integers, Sequences, FiniteSets, TLC

VARIABLES
    impl,           \* which stack serves the connection
    auth,           \* the server's configured Authentication
    always,         \* SimplePolicy.always (netway): "None" or a decision tag
    rules,          \* the rule list of the policy
    default_proxy,  \* Dialer.proxy_on_default / ProxyConnect.defaut_proxy
    force_proxy,    \* ProxyConnect.force_proxy
    pc,             \* position of serve / call
    log,            \* the I/O events of the connection, in order
    out,            \* the bytes written to the client so far
    creds,          \* the credentials the client presented
    req,            \* the DstRequest read from the client
    conn,           \* the outcome of the policy dialer's connect
    up,             \* payload bytes copied client -> egress
    down,           \* payload bytes copied egress -> client
    result,         \* what serve / call returned
    input,          \* the arguments of a function applied on its own
    output          \* what that function returned

vars == << impl, auth, always, rules, default_proxy, force_proxy, pc, log, out,
           creds, req, conn, up, down, result, input, output >>

\* What neither a connection nor a connect changes.
cfgVars == << impl, auth, always, rules, default_proxy, force_proxy, input, output >>

\* What a connection leaves alone but for the greeting it read, kept in input.
srvVars == << impl, auth, always, rules, default_proxy, force_proxy, output >>

(***************************************************************************)
(* Bounds of the model.                                                    *)
(***************************************************************************)
MaxRules == 2
MaxMethods == 2
MaxRelay == 1

Impls == {"netway", "socks"}

(***************************************************************************)
(* Character strings.                                                      *)
(***************************************************************************)
Digits == <<"0", "1", "2", "3", "4", "5", "6", "7", "8", "9">>

RECURSIVE Dec(_)
Dec(n) == IF n < 10 THEN << Digits[n + 1] >>
          ELSE Dec(n \div 10) \o << Digits[(n % 10) + 1] >>

StartsWith(s, p) == /\ Len(p) <= Len(s)
                    /\ SubSeq(s, 1, Len(p)) = p

EndsWith(s, p) == /\ Len(p) <= Len(s)
                  /\ SubSeq(s, Len(s) - Len(p) + 1, Len(s)) = p

Contains(s, p) == \E i \in 0..(Len(s) - Len(p)) : SubSeq(s, i + 1, i + Len(p)) = p

DigitVal(c) == CHOOSE d \in 0..9 : Digits[d + 1] = c

IsDigit(c) == \E d \in 0..9 : Digits[d + 1] = c

RECURSIVE NumVal(_)
NumVal(s) == IF s = <<>> THEN 0
             ELSE NumVal(SubSeq(s, 1, Len(s) - 1)) * 10 + DigitVal(s[Len(s)])

\* The positions of character c in s.
Positions(s, c) == {i \in 1..Len(s) : s[i] = c}

(***************************************************************************)
(* std::net: the display form of a socket address and its parser.          *)
(***************************************************************************)
Ipv4ToString(ip) ==
    Dec(ip[1]) \o <<".">> \o Dec(ip[2]) \o <<".">> \o Dec(ip[3]) \o <<".">> \o Dec(ip[4])

\* A decimal field of at most maxLen digits with a value of at most maxVal.
IsDecField(s, maxLen, maxVal, leadingZero) ==
    /\ Len(s) >= 1
    /\ Len(s) <= maxLen
    /\ \A i \in 1..Len(s) : IsDigit(s[i])
    /\ leadingZero \/ Len(s) = 1 \/ s[1] # "0"
    /\ NumVal(s) <= maxVal

\* "a.b.c.d:port" -> [ok, ip, port]; anything else -> [ok |-> FALSE].
ParseSocketAddrV4(s) ==
    LET colons == Positions(s, ":")
        dots == Positions(s, ".")
        bad == [ok |-> FALSE, ip |-> <<0, 0, 0, 0>>, port |-> 0]
    IN IF Cardinality(colons) # 1 \/ Cardinality(dots) # 3 THEN bad
       ELSE LET c == CHOOSE i \in colons : TRUE
                d1 == CHOOSE i \in dots : \A j \in dots : i <= j
                d3 == CHOOSE i \in dots : \A j \in dots : i >= j
                d2 == CHOOSE i \in dots : i # d1 /\ i # d3
                f1 == SubSeq(s, 1, d1 - 1)
                f2 == SubSeq(s, d1 + 1, d2 - 1)
                f3 == SubSeq(s, d2 + 1, d3 - 1)
                f4 == SubSeq(s, d3 + 1, c - 1)
                fp == SubSeq(s, c + 1, Len(s))
            IN IF /\ d3 < c
                  /\ \A f \in {f1, f2, f3, f4} : IsDecField(f, 3, 255, FALSE)
                  /\ IsDecField(fp, 5, 65535, TRUE)
               THEN [ok |-> TRUE,
                     ip |-> << NumVal(f1), NumVal(f2), NumVal(f3), NumVal(f4) >>,
                     port |-> NumVal(fp)]
               ELSE bad

(***************************************************************************)
(* Destinations: DstAddr (netway) / TargetAddr (proxy-io).                 *)
(***************************************************************************)
NoIp == <<0, 0, 0, 0>>

SocketDst(ip, port) == [t |-> "Socket", ip |-> ip, host |-> <<>>, port |-> port]

DomainDst(host, port) == [t |-> "Domain", ip |-> NoIp, host |-> host, port |-> port]

\* impl fmt::Display for DstAddr / TargetAddr
DstToString(dst) ==
    IF dst.t = "Socket" THEN Ipv4ToString(dst.ip) \o <<":">> \o Dec(dst.port)
    ELSE dst.host \o <<":">> \o Dec(dst.port)

\* impl Default for DstAddr (netway): 0.0.0.0:0
DstAddrDefault == SocketDst(<<0, 0, 0, 0>>, 0)

\* impl Default for TargetAddr (proxy-io): 127.0.0.1:0
TargetAddrDefault == SocketDst(<<127, 0, 0, 1>>, 0)

(***************************************************************************)
(* Decisions and rules.                                                    *)
(***************************************************************************)
Direct == [d |-> "Direct", remote_dns |-> FALSE]
Proxy(remote_dns) == [d |-> "Proxy", remote_dns |-> remote_dns]
Default == [d |-> "Default", remote_dns |-> FALSE]
Deny == [d |-> "Deny", remote_dns |-> FALSE]

is_default(d) == d.d = "Default"

NoArgs == [some |-> FALSE, v |-> <<>>]

DomainPat(tag, s) == [tag |-> tag, s |-> s, ip |-> NoIp]
IpExactPat(ip) == [tag |-> "IpExact", s |-> <<>>, ip |-> ip]

CidrPat(ip, mask) == [tag |-> "IpCIDR", s |-> <<>>, ip |-> ip, mask |-> mask]

\* u8 & u8
RECURSIVE BitAnd(_, _, _)
BitAnd(a, b, n) ==
    IF n = 0 THEN 0
    ELSE (a % 2) * (b % 2) + 2 * BitAnd(a \div 2, b \div 2, n - 1)

\* The octet ipv4_subnet_mask writes for mask % 8 = m.
PartialMask(m) == << 0, 128, 192, 224, 240, 248, 252, 254 >>[m + 1]

\* ipv4_subnet_mask: the octets of the mask, or the panic of an index out of
\* bounds.  sub_mask[n + 1] of the code is the octet n + 2 of a 1-based tuple.
ipv4_subnet_mask(mask) ==
    LET n == mask \div 8
        m == mask % 8
        full == [k \in 1..4 |-> IF k <= n THEN 255 ELSE 0]
    IN IF n >= 4 THEN [panic |-> FALSE, m |-> << 255, 255, 255, 255 >>]
       ELSE IF n + 2 > 4 THEN [panic |-> TRUE, m |-> full]
       ELSE [panic |-> FALSE, m |-> [full EXCEPT ![n + 2] = PartialMask(m)]]

\* is_subnet for two IPv4 addresses.
is_subnet(ip, subnet, mask) ==
    LET sm == ipv4_subnet_mask(mask)
    IN [panic |-> sm.panic,
        v |-> ~sm.panic /\ \A k \in 1..4 :
                 BitAnd(ip[k], sm.m[k], 8) = BitAnd(subnet[k], sm.m[k], 8)]

\* Rule::is_match of src/rule/rules.rs: the destination is a DstAddr.
Rule_is_match(pat, dst) ==
    CASE pat.tag = "DomainExact" -> dst.t = "Domain" /\ dst.host = pat.s
      [] pat.tag = "DomainSuffix" -> dst.t = "Domain" /\ EndsWith(dst.host, pat.s)
      [] pat.tag = "DomainKeyword" -> dst.t = "Domain" /\ Contains(dst.host, pat.s)
      [] pat.tag = "IpExact" -> dst.t = "Socket" /\ dst.ip = pat.ip
      [] pat.tag = "IpCIDR" -> dst.t = "Socket" /\ is_subnet(dst.ip, pat.ip, pat.mask).v
      [] OTHER -> FALSE

\* Whether Rule::is_match panics instead of returning.
Rule_is_match_panics(pat, dst) ==
    pat.tag = "IpCIDR" /\ dst.t = "Socket" /\ is_subnet(dst.ip, pat.ip, pat.mask).panic

\* Pattern::is_match of proxy-rules: the destination is its display string.
Pattern_is_match(pat, s) ==
    CASE pat.tag = "DomainExact" -> StartsWith(s, pat.s)
      [] pat.tag = "DomainSuffix" -> EndsWith(s, pat.s)
      [] pat.tag = "DomainKeyword" -> Contains(s, pat.s)
      [] pat.tag = "IpExact" ->
            LET a == ParseSocketAddrV4(s) IN a.ok /\ a.ip = pat.ip
      [] pat.tag = "IpCIDR" ->
            LET a == ParseSocketAddrV4(s) IN a.ok /\ is_subnet(a.ip, pat.ip, pat.mask).v
      [] OTHER -> FALSE

\* Whether Pattern::is_match panics instead of returning.
Pattern_is_match_panics(pat, s) ==
    /\ pat.tag = "IpCIDR"
    /\ LET a == ParseSocketAddrV4(s) IN a.ok /\ is_subnet(a.ip, pat.ip, pat.mask).panic

\* Whether a rule's pattern matches the destination, in the stack's own terms.
Matches(i, rule, dst) ==
    IF i = "netway" THEN Rule_is_match(rule.pat, dst)
    ELSE Pattern_is_match(rule.pat, DstToString(dst))

MatchPanics(i, pat, dst) ==
    IF i = "netway" THEN Rule_is_match_panics(pat, dst)
    ELSE Pattern_is_match_panics(pat, DstToString(dst))

\* Policy for (Rule, Decision, Option<Args>) / Policy for Rule
RuleEnforce(i, rule, dst) ==
    IF Matches(i, rule, dst)
    THEN [decision |-> rule.decision,
          args |-> IF i = "netway" THEN rule.args ELSE NoArgs]
    ELSE [decision |-> Default, args |-> NoArgs]

\* A scan that stops at the first rule whose pattern matches, whatever that
\* rule decides.
RECURSIVE VecEnforceFirstMatch(_, _, _)
VecEnforceFirstMatch(i, rs, dst) ==
    IF rs = <<>> THEN [decision |-> Default, args |-> NoArgs]
    ELSE IF Matches(i, Head(rs), dst) THEN RuleEnforce(i, Head(rs), dst)
    ELSE VecEnforceFirstMatch(i, Tail(rs), dst)

\* A scan in which a later rule that decides overrides an earlier one.
RECURSIVE VecEnforceLast(_, _, _)
VecEnforceLast(i, rs, dst) ==
    IF rs = <<>> THEN [decision |-> Default, args |-> NoArgs]
    ELSE LET r == RuleEnforce(i, rs[Len(rs)], dst)
         IN IF ~is_default(r.decision) THEN r
            ELSE VecEnforceLast(i, SubSeq(rs, 1, Len(rs) - 1), dst)

\* Policy for Vec<P>: the first result that is not Default.
RECURSIVE VecEnforce(_, _, _)
VecEnforce(i, rs, dst) ==
    IF rs = <<>> THEN [decision |-> Default, args |-> NoArgs]
    ELSE LET r == RuleEnforce(i, Head(rs), dst)
         IN IF ~is_default(r.decision) THEN r
            ELSE VecEnforce(i, Tail(rs), dst)


\* Policy for SimplePolicy (src/rule/mod.rs)
SimplePolicy_enforce(alw, rs, dst) ==
    IF alw # "None"
    THEN [decision |-> IF alw = "Direct" THEN Direct ELSE Proxy(FALSE), args |-> NoArgs]
    ELSE VecEnforce("netway", rs, dst)

(***************************************************************************)
(* Errors.  netway: the variant of error::Error in t, the io::ErrorKind of *)
(* Io in k, a payload in c.  proxy-socks: an io::Error, t = "IoError", its *)
(* ErrorKind in k and, for the errors io_err! builds, the socks Kind in c. *)
(***************************************************************************)
Err(t, k, c) == [t |-> t, k |-> k, c |-> c]
NoErr == Err("-", "-", "-")
E(t) == Err(t, "-", "-")
Io(k) == Err("Io", k, "-")
IoError(k) == Err("IoError", k, "-")
io_err(kind) == Err("IoError", "Other", kind)

IoKinds == {"ConnectionRefused", "NotConnected", "TimedOut", "UnexpectedEof",
            "HostUnreachable", "NetworkUnreachable", "BrokenPipe"}

\* Every value of netway's error::Error a dialer can hand back.
NetwayErrors ==
    {Io(k) : k \in IoKinds}
    \cup {Err("InvalidDstAddress", "-", "dns unresolved"),
          Err("InvalidAuthValues", "-", "msg"),
          Err("PasswordAuthFailure", "-", "0x01")}
    \cup {E(t) : t \in {"Succeed", "ProxyServerUnreachable", "InvalidReplyVersion",
                        "NoAcceptableMethods", "UnknownMethod",
                        "GeneralSocksServerFailure", "ConnectionNotAllowedByRuleset",
                        "NetworkUnreachable", "HostUnreachable", "ConnectionRefused",
                        "TtlExpired", "CommandNotSupported", "AddressTypeNotSupported",
                        "UnknownError", "InvalidReservedByte", "UnknownAddressType",
                        "AuthorizationRequired", "ProxyDenied"}}

SocksKinds == {"InvalidVersion", "UnknownMethod", "NoAcceptableMethods",
               "GeneralSocksServerFailure", "ConnectionNotAllowedByRuleset",
               "TtlExpired", "CommandNotSupported", "AddressTypeNotSupported",
               "UnknownRep", "Unauthorized"}

\* Every io::Error a proxy-io / proxy-socks dialer can hand back.
SocksErrors == {IoError(k) : k \in IoKinds} \cup {io_err(kind) : kind \in SocksKinds}

DialErrors(i) == IF i = "netway" THEN NetwayErrors ELSE SocksErrors

(***************************************************************************)
(* The policy dialers.  outcome is what the dialer that is invoked does:   *)
(* [ok |-> TRUE] or an error.                                              *)
(***************************************************************************)
OkOutcome == [ok |-> TRUE, err |-> NoErr]
ErrOutcome(e) == [ok |-> FALSE, err |-> e]

NoConn == [decision |-> Default, args |-> NoArgs, dialed |-> <<>>, ok |-> FALSE, err |-> NoErr]

Via(dec, dialer, outcome) ==
    [decision |-> dec.decision, args |-> dec.args, dialed |-> << dialer >>,
     ok |-> outcome.ok, err |-> outcome.err]

\* A Deny arm that reports the error only after it has tried the proxy dialer.
RefusedAfterDial(dec, e) ==
    [decision |-> dec.decision, args |-> dec.args, dialed |-> << "proxy" >>,
     ok |-> FALSE, err |-> e]

\* The Deny arm: an error, and no dialer invoked.
Refused(dec, e) ==
    [decision |-> dec.decision, args |-> dec.args, dialed |-> <<>>, ok |-> FALSE, err |-> e]

\* TryConnect for Dialer<D, P> (src/rule/mod.rs)
Dialer_try_connect(alw, rs, pod, dst, outcome) ==
    LET dec == SimplePolicy_enforce(alw, rs, dst)
    IN CASE dec.decision.d = "Direct" -> Via(dec, "direct", outcome)
         [] dec.decision.d = "Proxy" -> Via(dec, "proxy", outcome)
         [] dec.decision.d = "Default" ->
               IF pod THEN Via(dec, "direct", outcome) ELSE Via(dec, "proxy", outcome)
         [] dec.decision.d = "Deny" -> Refused(dec, E("ProxyDenied"))

\* A call that asks the policy first and forces the proxy only where the policy
\* leaves the decision open.
ProxyConnectPolicyFirst(rs, fp, dp, dst, outcome) ==
    LET pol == VecEnforce("socks", rs, dst)
        dec == IF fp /\ is_default(pol.decision)
               THEN [decision |-> Proxy(TRUE), args |-> NoArgs] ELSE pol
    IN CASE dec.decision.d = "Direct" -> Via(dec, "direct", outcome)
         [] dec.decision.d = "Proxy" -> Via(dec, "proxy", outcome)
         [] dec.decision.d = "Default" ->
               IF dp THEN Via(dec, "proxy", outcome) ELSE Via(dec, "direct", outcome)
         [] dec.decision.d = "Deny" -> Refused(dec, IoError("HostUnreachable"))

\* Service<TargetAddr> for ProxyConnect (proxy-io/src/stream.rs).  A policy of
\* None decides Default, as the empty rule list does.
ProxyConnect_call(rs, fp, dp, dst, outcome) ==
    LET dec == IF fp THEN [decision |-> Proxy(TRUE), args |-> NoArgs]
               ELSE VecEnforce("socks", rs, dst)
    IN CASE dec.decision.d = "Direct" -> Via(dec, "direct", outcome)
         [] dec.decision.d = "Proxy" -> Via(dec, "proxy", outcome)
         [] dec.decision.d = "Default" ->
               IF dp THEN Via(dec, "proxy", outcome) ELSE Via(dec, "direct", outcome)
         [] dec.decision.d = "Deny" -> Refused(dec, IoError("HostUnreachable"))

PolicyDial(i, alw, rs, fp, dp, dst, outcome) ==
    IF i = "netway" THEN Dialer_try_connect(alw, rs, dp, dst, outcome)
    ELSE ProxyConnect_call(rs, fp, dp, dst, outcome)

(***************************************************************************)
(* The inputs of the model.                                                *)
(***************************************************************************)
HostBT == <<"b", ".", "t">>
HostABT == <<"a", ".", "b", ".", "t">>
Ip10 == <<10, 0, 0, 1>>

Destinations == {DomainDst(HostBT, 80), DomainDst(HostABT, 443), SocketDst(Ip10, 80)}

Patterns == {DomainPat("DomainExact", HostBT), DomainPat("DomainSuffix", HostBT),
             DomainPat("DomainKeyword", <<"b">>), IpExactPat(Ip10)}

FrdArgs == [some |-> TRUE, v |-> << "force-remote-dns" >>]

\* The (decision, args) pairs rules carry.
Verdicts == {<< Direct, NoArgs >>, << Proxy(FALSE), NoArgs >>, << Proxy(FALSE), FrdArgs >>,
             << Default, NoArgs >>, << Deny, NoArgs >>}

Rules == {[pat |-> p, decision |-> v[1], args |-> v[2]] : p \in Patterns, v \in Verdicts}

RuleLists == UNION {[1..n -> Rules] : n \in 0..MaxRules}

DialOutcomes(i) == {OkOutcome} \cup {ErrOutcome(e) : e \in DialErrors(i)}

NoReq == [ver |-> 0, cmd |-> 0, rsv |-> 0, atyp |-> 0, dst |-> DstAddrDefault]
NoCreds == [ver |-> 0, u |-> "", p |-> ""]
NoResult == [st |-> "none", err |-> NoErr, up |-> 0, down |-> 0]
NoInput == << >>
NoOutput == << >>

(***************************************************************************)
(* The policy dialer on its own: a dialer built from a configuration, and  *)
(* one connect per destination.                                            *)
(***************************************************************************)
InitPolicy ==
    /\ impl \in Impls
    /\ auth = [t |-> "NoAuth", u |-> "", p |-> ""]
    /\ always \in (IF impl = "netway" THEN {"None", "Direct", "Proxy"} ELSE {"None"})
    /\ rules \in RuleLists
    /\ default_proxy \in BOOLEAN
    /\ force_proxy \in (IF impl = "socks" THEN BOOLEAN ELSE {FALSE})
    /\ pc = "policy"
    /\ log = <<>>
    /\ out = <<>>
    /\ creds = NoCreds
    /\ req = NoReq
    /\ conn = NoConn
    /\ up = 0
    /\ down = 0
    /\ result = NoResult
    /\ input = NoInput
    /\ output = NoOutput

\* connect(target): the decision, the dialer invoked, its outcome.
PolicyConnect ==
    /\ pc = "policy"
    /\ \E dst \in Destinations, o \in {OkOutcome, ErrOutcome(IF impl = "netway"
                                                             THEN Io("ConnectionRefused")
                                                             ELSE IoError("ConnectionRefused"))} :
          /\ req' = [NoReq EXCEPT !.dst = dst]
          /\ conn' = PolicyDial(impl, always, rules, force_proxy, default_proxy, dst, o)
    /\ pc' = "connected"
    /\ UNCHANGED << cfgVars, log, out, creds, up, down, result >>

\* policy.enforce(target) on the rule list alone.
PolicyEnforce ==
    /\ pc = "policy"
    /\ always = "None"
    /\ ~force_proxy
    /\ \E dst \in Destinations :
          LET v == VecEnforce(impl, rules, dst)
          IN /\ req' = [NoReq EXCEPT !.dst = dst]
             /\ conn' = [NoConn EXCEPT !.decision = v.decision, !.args = v.args]
    /\ pc' = "enforced"
    /\ UNCHANGED << cfgVars, log, out, creds, up, down, result >>

NextPolicy ==
    \/ PolicyEnforce
    \/ PolicyConnect

SpecPolicy == InitPolicy /\ [][NextPolicy]_vars

(***************************************************************************)
(* A rule's pattern on its own: is_match of one pattern on one destination.*)
(***************************************************************************)
HostBTV == <<"b", ".", "t", "v">>
HostIp10 == <<"1", "0", ".", "0", ".", "0", ".", "1">>

MatchDestinations ==
    {DomainDst(HostBT, 80), DomainDst(HostBT, 443), DomainDst(HostABT, 443),
     DomainDst(HostBTV, 80), DomainDst(HostIp10, 80)}
    \cup {SocketDst(ip, 80) : ip \in {Ip10, <<10, 128, 0, 1>>, <<10, 0, 128, 1>>,
                                      <<10, 0, 0, 129>>, <<11, 0, 0, 1>>}}

CidrPrefixes == 0..33

MatchPatterns ==
    Patterns
    \cup {DomainPat("DomainKeyword", <<"0">>)}
    \cup {CidrPat(<<10, 0, 0, 0>>, m) : m \in CidrPrefixes}

NoMatch == [panic |-> FALSE, v |-> FALSE]

InitMatch ==
    /\ impl \in Impls
    /\ auth = [t |-> "NoAuth", u |-> "", p |-> ""]
    /\ always = "None"
    /\ rules = <<>>
    /\ default_proxy = FALSE
    /\ force_proxy = FALSE
    /\ pc = "match"
    /\ log = <<>>
    /\ out = <<>>
    /\ creds = NoCreds
    /\ req = NoReq
    /\ conn = NoConn
    /\ up = 0
    /\ down = 0
    /\ result = NoResult
    /\ input \in [pat : MatchPatterns, dst : MatchDestinations]
    /\ output = NoMatch

\* rule.is_match(dst): the answer, or the panic.
IsMatch ==
    /\ pc = "match"
    /\ output' = IF MatchPanics(impl, input.pat, input.dst)
                 THEN [panic |-> TRUE, v |-> FALSE]
                 ELSE [panic |-> FALSE,
                       v |-> Matches(impl, [pat |-> input.pat], input.dst)]
    /\ pc' = "matched"
    /\ UNCHANGED << impl, auth, always, rules, default_proxy, force_proxy, input,
                    log, out, creds, req, conn, up, down, result >>

NextMatch == IsMatch

SpecMatch == InitMatch /\ [][NextMatch]_vars

(***************************************************************************)
(* Rule strings.  A string is a sequence of tokens: the separators "," and *)
(* "/" and the words between them.                                         *)
(***************************************************************************)
\* s.split(sep): the fields between the separators.
RECURSIVE Split(_, _)
Split(s, sep) ==
    IF \A k \in 1..Len(s) : s[k] # sep THEN << s >>
    ELSE LET k == CHOOSE n \in 1..Len(s) : s[n] = sep /\ \A j \in 1..(n - 1) : s[j] # sep
         IN << SubSeq(s, 1, k - 1) >> \o Split(SubSeq(s, k + 1, Len(s)), sep)

\* str::to_uppercase / to_lowercase on the words of a rule string.
Upper(w) ==
    CASE w = "domain-suffix" -> "DOMAIN-SUFFIX"
      [] w = "direct" -> "DIRECT"
      [] w = "proxy" -> "PROXY"
      [] w = "default" -> "DEFAULT"
      [] w = "deny" -> "DENY"
      [] OTHER -> w

Lower(w) ==
    CASE w = "DIRECT" -> "direct"
      [] w = "PROXY" -> "proxy"
      [] w = "DEFAULT" -> "default"
      [] w = "DENY" -> "deny"
      [] w = "DOMAIN-SUFFIX" -> "domain-suffix"
      [] OTHER -> w

eq_ignore_ascii_case(f, w) == Len(f) = 1 /\ Upper(f[1]) = Upper(w)

\* str::parse::<IpAddr>: the address a word denotes, by family and canonical text.
IpAddrParse(f) ==
    IF Len(f) # 1 THEN [ok |-> FALSE, v |-> 0, a |-> ""]
    ELSE CASE f[1] = "10.0.0.0" -> [ok |-> TRUE, v |-> 4, a |-> "10.0.0.0"]
           [] f[1] = "::1" -> [ok |-> TRUE, v |-> 6, a |-> "::1"]
           [] f[1] = "0:0:0:0:0:0:0:1" -> [ok |-> TRUE, v |-> 6, a |-> "::1"]
           [] OTHER -> [ok |-> FALSE, v |-> 0, a |-> ""]

\* str::parse::<usize> and the Display of a usize.
UsizeParse(f) ==
    IF Len(f) # 1 THEN [ok |-> FALSE, n |-> 0]
    ELSE CASE f[1] = "8" -> [ok |-> TRUE, n |-> 8]
           [] f[1] = "08" -> [ok |-> TRUE, n |-> 8]
           [] f[1] = "64" -> [ok |-> TRUE, n |-> 64]
           [] OTHER -> [ok |-> FALSE, n |-> 0]

UsizeText(n) == IF n = 8 THEN "8" ELSE "64"

ParseErr(e) == [ok |-> FALSE, err |-> e]
ParseOk(pat, dec, args) == [ok |-> TRUE, pattern |-> pat, decision |-> dec, args |-> args]

TextPat(tag, f) == [tag |-> tag, s |-> f]
AddrPat(tag, ip) == [tag |-> tag, v |-> ip.v, a |-> ip.a]
SubnetPat(ip, n) == [tag |-> "IpCIDR", v |-> ip.v, a |-> ip.a, mask |-> n]

\* regex::Regex::new: an unclosed group is not a regex.
Regex_new_ok(f) == f # << "(" >>

\* A parse of the pattern that reports every failure of an IP-CIDR field as
\* InvalidSubnet.
rules_parse_rule_one_kind(tag, f) ==
    CASE tag = "DOMAIN" -> [ok |-> TRUE, pat |-> TextPat("DomainExact", f)]
      [] tag = "DOMAIN-SUFFIX" -> [ok |-> TRUE, pat |-> TextPat("DomainSuffix", f)]
      [] tag = "DOMAIN-REGEX" -> IF Regex_new_ok(f)
                                 THEN [ok |-> TRUE, pat |-> TextPat("DomainRegex", f)]
                                 ELSE ParseErr("InvalidRegex")
      [] tag = "DOMAIN-KEYWORD" -> [ok |-> TRUE, pat |-> TextPat("DomainKeyword", f)]
      [] tag \in {"IPV4", "IPV6"} ->
            LET ip == IpAddrParse(f)
            IN IF ip.ok THEN [ok |-> TRUE, pat |-> AddrPat("IpExact", ip)]
               ELSE ParseErr("InvalidAddr")
      [] tag \in {"IP-CIDR", "IP-CIDR6"} ->
            LET ip_mask == Split(f, "/")
            IN IF Len(ip_mask) # 2 THEN ParseErr("InvalidSubnet")
               ELSE LET ip == IpAddrParse(ip_mask[1])
                        n == UsizeParse(ip_mask[2])
                    IN IF ~ip.ok \/ ~n.ok THEN ParseErr("InvalidSubnet")
                       ELSE [ok |-> TRUE, pat |-> SubnetPat(ip, n.n)]
      [] OTHER -> ParseErr("UnknownRule")

\* The pattern of parse (src/rule/rules.rs) from the tag and the second field.
rules_parse_rule(tag, f) ==
    CASE tag = "DOMAIN" -> [ok |-> TRUE, pat |-> TextPat("DomainExact", f)]
      [] tag = "DOMAIN-SUFFIX" -> [ok |-> TRUE, pat |-> TextPat("DomainSuffix", f)]
      [] tag = "DOMAIN-REGEX" -> IF Regex_new_ok(f)
                                 THEN [ok |-> TRUE, pat |-> TextPat("DomainRegex", f)]
                                 ELSE ParseErr("InvalidRegex")
      [] tag = "DOMAIN-KEYWORD" -> [ok |-> TRUE, pat |-> TextPat("DomainKeyword", f)]
      [] tag \in {"IPV4", "IPV6"} ->
            LET ip == IpAddrParse(f)
            IN IF ip.ok THEN [ok |-> TRUE, pat |-> AddrPat("IpExact", ip)]
               ELSE ParseErr("InvalidAddr")
      [] tag \in {"IP-CIDR", "IP-CIDR6"} ->
            LET ip_mask == Split(f, "/")
            IN IF Len(ip_mask) # 2 THEN ParseErr("InvalidSubnet")
               ELSE LET ip == IpAddrParse(ip_mask[1])
                        n == UsizeParse(ip_mask[2])
                    IN IF ~ip.ok THEN ParseErr("InvalidAddr")
                       ELSE IF ~n.ok THEN ParseErr("ParseIntError")
                       ELSE [ok |-> TRUE, pat |-> SubnetPat(ip, n.n)]
      [] OTHER -> ParseErr("UnknownRule")

\* parse (src/rule/rules.rs)
rules_parse(raw) ==
    LET splits == Split(raw, ",")
    IN IF Len(splits) < 3 THEN ParseErr("InvalidRule")
       ELSE LET rule == IF Len(splits[1]) = 1
                        THEN rules_parse_rule(Upper(splits[1][1]), splits[2])
                        ELSE ParseErr("UnknownRule")
                dec == IF Len(splits[3]) = 1 THEN Lower(splits[3][1]) ELSE ""
            IN IF ~rule.ok THEN rule
               ELSE IF dec \notin {"direct", "deny", "proxy", "default"}
               THEN ParseErr("InvalidDecision")
               ELSE ParseOk(rule.pat,
                            CASE dec = "direct" -> Direct
                              [] dec = "deny" -> Deny
                              [] dec = "proxy" -> Proxy(FALSE)
                              [] dec = "default" -> Default,
                            IF Len(splits) > 3
                            THEN [some |-> TRUE, v |-> SubSeq(splits, 4, Len(splits))]
                            ELSE NoArgs)

\* impl fmt::Display for Rule (src/rule/rules.rs) and for Pattern (proxy-rules)
PatternToString(pat) ==
    CASE pat.tag = "DomainExact" -> << "DOMAIN", "," >> \o pat.s
      [] pat.tag = "DomainSuffix" -> << "DOMAIN-SUFFIX", "," >> \o pat.s
      [] pat.tag = "DomainRegex" -> << "DOMAIN-REGEX", "," >> \o pat.s
      [] pat.tag = "DomainKeyword" -> << "DOMAIN-KEYWORD", "," >> \o pat.s
      [] pat.tag = "IpExact" -> << IF pat.v = 4 THEN "IPV4" ELSE "IPV6", ",", pat.a >>
      [] pat.tag = "IpCIDR" -> << IF pat.v = 4 THEN "IP-CIDR" ELSE "IP-CIDR6", ",",
                                  pat.a, "/", UsizeText(pat.mask) >>

\* impl fmt::Display for Decision (proxy-rules)
DecisionToString(dec) ==
    CASE dec.d = "Direct" -> << "DIRECT" >>
      [] dec.d = "Proxy" -> IF dec.remote_dns THEN << "PROXY", ",", "force-remote-dns" >>
                            ELSE << "PROXY" >>
      [] dec.d = "Default" -> << "DEFAULT" >>
      [] dec.d = "Deny" -> << "DENY" >>

\* impl fmt::Display for Rule (proxy-rules)
RuleToString(r) == PatternToString(r.pattern) \o << "," >> \o DecisionToString(r.decision)

\* The pattern of Rule::from_str (proxy-rules) from the tag and the second field.
from_str_pattern(tag, f) ==
    IF eq_ignore_ascii_case(tag, "DOMAIN") THEN [ok |-> TRUE, pat |-> TextPat("DomainExact", f)]
    ELSE IF eq_ignore_ascii_case(tag, "DOMAIN-SUFFIX")
    THEN [ok |-> TRUE, pat |-> TextPat("DomainSuffix", f)]
    ELSE IF eq_ignore_ascii_case(tag, "DOMAIN-REGEX")
    THEN [ok |-> TRUE, pat |-> TextPat("DomainRegex", f)]
    ELSE IF eq_ignore_ascii_case(tag, "DOMAIN-KEYWORD")
    THEN [ok |-> TRUE, pat |-> TextPat("DomainKeyword", f)]
    ELSE IF eq_ignore_ascii_case(tag, "IPV4") \/ eq_ignore_ascii_case(tag, "IPV6")
    THEN LET ip == IpAddrParse(f)
         IN IF ip.ok THEN [ok |-> TRUE, pat |-> AddrPat("IpExact", ip)]
            ELSE ParseErr("AddrParseError")
    ELSE IF eq_ignore_ascii_case(tag, "IP-CIDR")
    THEN IF \A k \in 1..Len(f) : f[k] # "/" THEN ParseErr("invalid ip-cidr")
         ELSE LET n == CHOOSE k \in 1..Len(f) : f[k] = "/" /\ \A j \in 1..(k - 1) : f[j] # "/"
                  ip == IpAddrParse(SubSeq(f, 1, n - 1))
                  mask == UsizeParse(SubSeq(f, n + 1, Len(f)))
              IN IF ~ip.ok THEN ParseErr("AddrParseError")
                 ELSE IF ~mask.ok THEN ParseErr("ParseIntError")
                 ELSE [ok |-> TRUE, pat |-> SubnetPat(ip, mask.n)]
    ELSE ParseErr("unknown pattern tag")

\* Rule::from_str (proxy-rules)
from_str(s) ==
    LET splits == Split(s, ",")
    IN IF Len(splits) < 3 THEN ParseErr("invalid")
       ELSE LET pattern == from_str_pattern(splits[1], splits[2])
                dec == splits[3]
                args == SubSeq(splits, 4, Len(splits))
            IN IF ~pattern.ok THEN pattern
               ELSE IF eq_ignore_ascii_case(dec, "direct") THEN ParseOk(pattern.pat, Direct, NoArgs)
               ELSE IF eq_ignore_ascii_case(dec, "proxy")
               THEN ParseOk(pattern.pat,
                            Proxy(\E k \in 1..Len(args) :
                                     eq_ignore_ascii_case(args[k], "force-remote-dns")),
                            NoArgs)
               ELSE IF eq_ignore_ascii_case(dec, "default") THEN ParseOk(pattern.pat, Default, NoArgs)
               ELSE IF eq_ignore_ascii_case(dec, "deny") THEN ParseOk(pattern.pat, Deny, NoArgs)
               ELSE ParseErr("unknown decision")

\* The stack's parser, and the string form of what it parsed: netway has a
\* Display for the Rule of the tuple alone.
ParseRule(i, s) == IF i = "netway" THEN rules_parse(s) ELSE from_str(s)
RuleDisplay(i, r) == IF i = "netway" THEN PatternToString(r.pattern) ELSE RuleToString(r)

\* The rule strings of a rules file: a tag, a pattern the tag admits, a
\* decision, and with or without the force-remote-dns argument.
PatternTexts ==
    {<< t, ",", "b.t" >> : t \in {"DOMAIN", "DOMAIN-SUFFIX", "domain-suffix", "DOMAIN-KEYWORD"}}
    \cup {<< "DOMAIN-REGEX", ",", "^b" >>, << "IPV4", ",", "10.0.0.0" >>,
          << "IPV6", ",", "::1" >>, << "IPV6", ",", "0:0:0:0:0:0:0:1" >>,
          << "IP-CIDR", ",", "10.0.0.0", "/", "8" >>,
          << "IP-CIDR", ",", "10.0.0.0", "/", "08" >>,
          << "IP-CIDR", ",", "::1", "/", "64" >>,
          << "IP-CIDR6", ",", "::1", "/", "64" >>}

DecisionTexts == {"direct", "proxy", "PROXY", "default", "deny"}

RuleStrings ==
    {p \o << ",", d >> : p \in PatternTexts, d \in DecisionTexts}
    \cup {p \o << ",", d, ",", "force-remote-dns" >> : p \in PatternTexts, d \in DecisionTexts}

InitRule ==
    /\ impl \in Impls
    /\ auth = [t |-> "NoAuth", u |-> "", p |-> ""]
    /\ always = "None"
    /\ rules = <<>>
    /\ default_proxy = FALSE
    /\ force_proxy = FALSE
    /\ pc = "rule"
    /\ log = <<>>
    /\ out = <<>>
    /\ creds = NoCreds
    /\ req = NoReq
    /\ conn = NoConn
    /\ up = 0
    /\ down = 0
    /\ result = NoResult
    /\ input \in RuleStrings
    /\ output = NoOutput

\* parse(s) of a line of the rules file.
ParseLine ==
    /\ pc = "rule"
    /\ output' = [first |-> ParseRule(impl, input), again |-> ParseErr("-")]
    /\ pc' = "parsed"
    /\ UNCHANGED << impl, auth, always, rules, default_proxy, force_proxy, input,
                    log, out, creds, req, conn, up, down, result >>

\* parse(r.to_string()) of the rule a line gave.
ParseAgain ==
    /\ pc = "parsed"
    /\ output.first.ok
    /\ output' = [output EXCEPT !.again = ParseRule(impl, RuleDisplay(impl, output.first))]
    /\ pc' = "reparsed"
    /\ UNCHANGED << impl, auth, always, rules, default_proxy, force_proxy, input,
                    log, out, creds, req, conn, up, down, result >>

NextRule ==
    \/ ParseLine
    \/ ParseAgain

SpecRule == InitRule /\ [][NextRule]_vars

\* Rule strings that parse (src/rule/rules.rs) rejects, each for its first
\* failing check.
RejectedStrings ==
    {<< "DOMAIN" >>, << "DOMAIN", ",", "b.t" >>, << "HOST", ",", "b.t" >>,
     << "HOST", ",", "b.t", ",", "direct" >>,
     << "HOST", ",", "b.t", ",", "reject" >>,
     << "DOMAIN", ",", "b.t", ",", "reject" >>,
     << "DOMAIN", ",", "b.t", ",", "reject", ",", "force-remote-dns" >>,
     << "IPV4", ",", "b.t", ",", "direct" >>,
     << "IPV6", ",", "b.t", ",", "reject" >>,
     << "DOMAIN-REGEX", ",", "(", ",", "direct" >>,
     << "DOMAIN-REGEX", ",", "(", ",", "reject" >>,
     << "IP-CIDR", ",", "10.0.0.0", ",", "direct" >>,
     << "IP-CIDR", ",", "10.0.0.0", "/", "8", "/", "8", ",", "direct" >>,
     << "IP-CIDR", ",", "10.0.0.0", "/", "x", ",", "direct" >>,
     << "IP-CIDR6", ",", "::1", "/", "x", ",", "proxy" >>,
     << "IP-CIDR", ",", "b.t", "/", "8", ",", "direct" >>,
     << "IP-CIDR", ",", "b.t", "/", "x", ",", "direct" >>,
     << "IP-CIDR", ",", "10.0.0.0", "/", "8", ",", "reject" >>}

InitParse ==
    /\ impl = "netway"
    /\ auth = [t |-> "NoAuth", u |-> "", p |-> ""]
    /\ always = "None"
    /\ rules = <<>>
    /\ default_proxy = FALSE
    /\ force_proxy = FALSE
    /\ pc = "rule"
    /\ log = <<>>
    /\ out = <<>>
    /\ creds = NoCreds
    /\ req = NoReq
    /\ conn = NoConn
    /\ up = 0
    /\ down = 0
    /\ result = NoResult
    /\ input \in RuleStrings \cup RejectedStrings
    /\ output = NoOutput

SpecParse == InitParse /\ [][NextRule]_vars





(***************************************************************************)
(* SOCKS5 wire values.                                                     *)
(***************************************************************************)
SOCKS_VERSION == 5
AUTH_VERSION == 1
NO_AUTHENTICATION_REQUIRED == 0
USERNAME_AND_PASSWORD == 2
NO_ACCEPTABLE_METHODS == 255
IANA_ASSIGNED_MAX == 127
CONNECT == 1
BIND == 2
UDP_ASSOCIATE == 3
DST_IPV4 == 1
DST_DOMAIN == 3
DST_IPV6 == 4
AUTH_SUCCEED == 0

\* The discriminants of Rep.
RepCode(rep) ==
    CASE rep = "Succeeded" -> 0
      [] rep = "GeneralSocksServerFailure" -> 1
      [] rep = "ConnectionNotAllowedByRuleset" -> 2
      [] rep = "NetworkUnreachable" -> 3
      [] rep = "HostUnreachable" -> 4
      [] rep = "ConnectionRefused" -> 5
      [] rep = "TtlExpired" -> 6
      [] rep = "CommandNotSupported" -> 7
      [] rep = "AddressTypeNotSupported" -> 8

\* Rep::from_err (netway)
Rep_from_err(e) ==
    CASE e.t = "Succeed" -> "Succeeded"
      [] e.t = "Io" -> IF e.k = "ConnectionRefused" THEN "ConnectionRefused"
                       ELSE "AddressTypeNotSupported"
      [] e.t = "InvalidDstAddress" -> "AddressTypeNotSupported"
      [] e.t = "ConnectionRefused" -> "ConnectionRefused"
      [] e.t = "NetworkUnreachable" -> "NetworkUnreachable"
      [] e.t = "HostUnreachable" -> "HostUnreachable"
      [] e.t = "CommandNotSupported" -> "CommandNotSupported"
      [] e.t = "TtlExpired" -> "TtlExpired"
      [] OTHER -> "GeneralSocksServerFailure"

\* The match on ioe.kind() in Server::call (proxy-socks)
Socks_rep_of(e) ==
    CASE e.k = "ConnectionRefused" -> "ConnectionRefused"
      [] e.k = "HostUnreachable" -> "HostUnreachable"
      [] e.k = "NetworkUnreachable" -> "NetworkUnreachable"
      [] OTHER -> "GeneralSocksServerFailure"

\* Status::code (netway): the octet PasswordReply carries.
Status_code(status) == IF status.ok THEN 1 ELSE status.code

\* TryFrom<u8> for Status (netway): the status a client reads from an octet.
Status_try_from(v) == IF v = 1 THEN [ok |-> TRUE, code |-> 0] ELSE [ok |-> FALSE, code |-> v]

\* Status::is_succeed (proxy-socks)
Status_is_succeed(v) == v = AUTH_SUCCEED

\* TryFrom<u8> for Method (netway): whether the octet names a method.
Method_try_from_ok(b) ==
    b \in {NO_AUTHENTICATION_REQUIRED, 1, USERNAME_AND_PASSWORD, NO_ACCEPTABLE_METHODS}
    \/ (b >= 3 /\ b <= IANA_ASSIGNED_MAX)

\* ToSocket for DstAddr / Reply::write of a socket address: ATYP, ADDR, PORT.
SocketAddrBytes(dst) == << DST_IPV4 >> \o dst.ip \o << dst.port \div 256, dst.port % 256 >>

MethodReplyBytes(m) == << SOCKS_VERSION, m >>
PasswordReplyBytes(code) == << AUTH_VERSION, code >>
DstReplyBytes(rep, bnd) == << SOCKS_VERSION, RepCode(rep), 0 >> \o SocketAddrBytes(bnd)

(***************************************************************************)
(* The SOCKS5 address on the wire: ATYP, ADDR, PORT.  A String is the      *)
(* sequence of its bytes.                                                  *)
(***************************************************************************)
\* The largest value of a u8.
U8Max == 255

\* SocketAddr::V6 of std: the address, the port, flowinfo and scope_id.
Socket6Dst(ip, port, flowinfo, scope_id) ==
    [t |-> "Socket6", ip |-> ip, host |-> <<>>, port |-> port,
     flowinfo |-> flowinfo, scope_id |-> scope_id]

\* write_u16 with the low octet first: not what tokio writes.
write_u16_le(n) == << n % 256, n \div 256 >>

\* AsyncWriteExt::write_u16: big-endian.
write_u16(n) == << n \div 256, n % 256 >>

\* AsyncReadExt::read_u16 of two octets.
read_u16(b) == b[1] * 256 + b[2]

\* len as u8
as_u8(n) == n % (U8Max + 1)

\* write_fixed / write_u8(len as u8) then write_all: the length octet, then
\* every byte of the string.
write_fixed(b) == << as_u8(Len(b)) >> \o b

\* ToSocket for DstAddr / the target of Request::write
addr_to_socket(d) ==
    CASE d.t = "Domain" -> << DST_DOMAIN >> \o write_fixed(d.host) \o write_u16(d.port)
      [] d.t = "Socket" -> << DST_IPV4 >> \o d.ip \o write_u16(d.port)
      [] d.t = "Socket6" -> << DST_IPV6 >> \o d.ip \o write_u16(d.port)

\* String::from_utf8 of bytes that are ASCII or 0xFF, which no UTF-8 text holds.
from_utf8_ok(b) == \A k \in DOMAIN b : b[k] < 128

ReadErr(e) == [ok |-> FALSE, err |-> e, used |-> 0]
ReadOk(d, n) == [ok |-> TRUE, d |-> d, used |-> n]

\* read_to_fixed_string: the length octet n, then n bytes, then from_utf8.
\* The result counts the bytes read.
read_to_fixed_string(s) ==
    IF Len(s) < 1 THEN ReadErr("UnexpectedEof")
    ELSE IF Len(s) < 1 + s[1] THEN ReadErr("UnexpectedEof")
    ELSE IF ~from_utf8_ok(SubSeq(s, 2, 1 + s[1])) THEN ReadErr("InvalidData")
    ELSE ReadOk(SubSeq(s, 2, 1 + s[1]), 1 + s[1])

\* read_exact(n) then read_u16 after the ATYP octet.
read_ip_port(s, n) ==
    IF Len(s) < 1 + n + 2 THEN ReadErr("UnexpectedEof")
    ELSE LET ip == SubSeq(s, 2, 1 + n)
             port == read_u16(SubSeq(s, 2 + n, 3 + n))
         IN  ReadOk(IF n = 4 THEN SocketDst(ip, port) ELSE Socket6Dst(ip, port, 0, 0), 1 + n + 2)

\* FromSocket for DstAddr / the target of Request::read, on the bytes s of the
\* stream.  An unknown ATYP is an error in netway and no target in proxy-socks.
addr_from_socket(i, s) ==
    IF Len(s) < 1 THEN ReadErr("UnexpectedEof")
    ELSE CASE s[1] = DST_IPV4 -> read_ip_port(s, 4)
           [] s[1] = DST_IPV6 -> read_ip_port(s, 16)
           [] s[1] = DST_DOMAIN ->
                LET f == read_to_fixed_string(Tail(s))
                IN  IF ~f.ok THEN f
                    ELSE IF Len(s) < 1 + f.used + 2 THEN ReadErr("UnexpectedEof")
                    ELSE ReadOk(DomainDst(f.d, read_u16(SubSeq(s, 2 + f.used, 3 + f.used))),
                                1 + f.used + 2)
           [] OTHER -> IF i = "netway" THEN ReadErr("AddressTypeNotSupported")
                       ELSE ReadOk([t |-> "None"], 1)

\* The addresses written and read: every form, ports at both ends of u16,
\* domains of the lengths at and around the range of the length octet, IPv6
\* sockets with and without flowinfo and scope_id.
AddrPorts == {0, 80, 443, 65535}
Ascii(n) == [k \in 1..n |-> 97]
DomainLengths == {0, 1, 3, U8Max, U8Max + 1, U8Max + 45}
Ipv4Octets == {<< 0, 0, 0, 0 >>, << 10, 0, 0, 1 >>, << 255, 255, 255, 255 >>}
Ipv6Octets == {[k \in 1..16 |-> IF k = 16 THEN 1 ELSE 0], [k \in 1..16 |-> 255]}

AddrDestinations ==
    {SocketDst(ip, p) : ip \in Ipv4Octets, p \in AddrPorts}
    \cup {Socket6Dst(ip, p, f, sc) : ip \in Ipv6Octets, p \in AddrPorts, f \in {0, 1}, sc \in {0, 1}}
    \cup {DomainDst(Ascii(n), p) : n \in DomainLengths, p \in AddrPorts}

\* What follows the address in the stream.
AddrTails == {<< >>, << 5 >>}

\* Addresses as a client's bytes: a domain of length 0, a domain that is not
\* UTF-8, a domain cut short, an unknown ATYP, and b.t:443.
AddrWires ==
    {<< DST_DOMAIN, 0, 0, 80 >>, << DST_DOMAIN, 1, 255, 0, 80 >>, << DST_DOMAIN, 3, 98 >>,
     << 9, 0, 0 >>, << DST_DOMAIN, 3, 98, 46, 116, 1, 187 >>}

NoDst == [t |-> "None"]
NoRead == [ok |-> FALSE, err |-> "-", used |-> 0]

InitAddr ==
    /\ impl \in Impls
    /\ auth = [t |-> "NoAuth", u |-> "", p |-> ""]
    /\ always = "None"
    /\ rules = <<>>
    /\ default_proxy = FALSE
    /\ force_proxy = FALSE
    /\ log = <<>>
    /\ out = <<>>
    /\ creds = NoCreds
    /\ req = NoReq
    /\ conn = NoConn
    /\ up = 0
    /\ down = 0
    /\ result = NoResult
    /\ \/ /\ pc = "addr"
          /\ input \in [d : AddrDestinations, tail : AddrTails]
          /\ output = NoOutput
       \/ /\ pc = "wire"
          /\ input \in [d : {NoDst}, tail : AddrWires]
          /\ output = [wire |-> input.tail, written |-> 0, read |-> NoRead]

\* d.to_socket(socket): the bytes of d enter the stream, ahead of what follows.
AddrToSocket ==
    /\ pc = "addr"
    /\ output' = [wire |-> addr_to_socket(input.d) \o input.tail,
                  written |-> Len(addr_to_socket(input.d)),
                  read |-> NoRead]
    /\ pc' = "wire"
    /\ UNCHANGED << impl, auth, always, rules, default_proxy, force_proxy, input,
                    log, out, creds, req, conn, up, down, result >>

\* DstAddr::from_socket(socket) / the target of Request::read.
AddrFromSocket ==
    /\ pc = "wire"
    /\ output' = [output EXCEPT !.read = addr_from_socket(impl, output.wire)]
    /\ pc' = "read"
    /\ UNCHANGED << impl, auth, always, rules, default_proxy, force_proxy, input,
                    log, out, creds, req, conn, up, down, result >>

NextAddr ==
    \/ AddrToSocket
    \/ AddrFromSocket

SpecAddr == InitAddr /\ [][NextAddr]_vars

(***************************************************************************)
(* What a client can send.                                                 *)
(***************************************************************************)
MethodOctets == {NO_AUTHENTICATION_REQUIRED, USERNAME_AND_PASSWORD, 128}

MethodLists == UNION {[1..n -> MethodOctets] : n \in 0..MaxMethods}

Greetings == [ver : {SOCKS_VERSION, 4}, methods : MethodLists]

Users == {"user", "root"}
Passwords == {"pass", "guess"}

AuthRequests == [ver : {AUTH_VERSION, SOCKS_VERSION}, u : Users, p : Passwords]

WellFormedRequests ==
    [ver : {SOCKS_VERSION}, cmd : {CONNECT, BIND, UDP_ASSOCIATE}, rsv : {0},
     atyp : {0}, dst : Destinations]

\* atyp = 0 stands for the ATYP of dst; any other value is an octet that names no
\* address type.
MalformedRequests ==
    {[ver |-> 4, cmd |-> CONNECT, rsv |-> 0, atyp |-> 0, dst |-> DomainDst(HostBT, 80)],
     [ver |-> SOCKS_VERSION, cmd |-> 9, rsv |-> 0, atyp |-> 0, dst |-> DomainDst(HostBT, 80)],
     [ver |-> SOCKS_VERSION, cmd |-> CONNECT, rsv |-> 1, atyp |-> 0, dst |-> DomainDst(HostBT, 80)],
     [ver |-> SOCKS_VERSION, cmd |-> CONNECT, rsv |-> 0, atyp |-> 2, dst |-> DstAddrDefault],
     [ver |-> SOCKS_VERSION, cmd |-> BIND, rsv |-> 0, atyp |-> 2, dst |-> DstAddrDefault]}

Requests == WellFormedRequests \cup MalformedRequests

LocalAddr == SocketDst(<<192, 168, 0, 2>>, 50000)

NoAuth == [t |-> "NoAuth", u |-> "", p |-> ""]
Basic(u, p) == [t |-> "Basic", u |-> u, p |-> p]

\* The rule lists the servers are configured with.
DenyBT == [pat |-> DomainPat("DomainExact", HostBT), decision |-> Deny, args |-> NoArgs]
ProxyKeyB == [pat |-> DomainPat("DomainKeyword", <<"b">>), decision |-> Proxy(FALSE), args |-> NoArgs]
DirectIp10 == [pat |-> IpExactPat(Ip10), decision |-> Direct, args |-> NoArgs]

ServerRuleLists == {<<>>, << DenyBT, ProxyKeyB >>, << DirectIp10, DenyBT >>}

(***************************************************************************)
(* One connection of a SOCKS5 server.                                      *)
(***************************************************************************)
Init ==
    /\ impl \in Impls
    /\ auth \in {NoAuth, Basic("user", "pass")}
    /\ always = "None"
    /\ rules \in ServerRuleLists
    /\ default_proxy \in BOOLEAN
    /\ force_proxy \in (IF impl = "socks" THEN BOOLEAN ELSE {FALSE})
    /\ pc = "greet"
    /\ log = <<>>
    /\ out = <<>>
    /\ creds = NoCreds
    /\ req = NoReq
    /\ conn = NoConn
    /\ up = 0
    /\ down = 0
    /\ result = NoResult
    /\ input = NoInput
    /\ output = NoOutput

Fail(e) == [st |-> "err", err |-> e, up |-> 0, down |-> 0]
Done(u, d) == [st |-> "ok", err |-> NoErr, up |-> u, down |-> d]

\* The serve future completes with r.
Return(r) == pc' = "done" /\ result' = r

\* What one step of serve does: the events it adds to the log, the bytes it
\* writes to the client, where it goes on, and what it returns if it returns.
Eff(evs, bytes, npc, res) == [evs |-> evs, bytes |-> bytes, pc |-> npc, res |-> res]

Apply(eff) ==
    /\ log' = log \o eff.evs
    /\ out' = out \o eff.bytes
    /\ pc' = eff.pc
    /\ result' = eff.res

DialEvents(c) == [k \in 1..Len(c.dialed) |->
                    IF c.dialed[k] = "direct" THEN "dial:direct" ELSE "dial:proxy"]

(***************************************************************************)
(* Proxy::serve (netway).                                                  *)
(***************************************************************************)
\* MethodRequest::from_socket, then the MethodReply the configuration selects.
NetwayGreetEff(g, wok) ==
    IF g.ver # SOCKS_VERSION THEN Eff(<<>>, <<>>, "done", Fail(E("InvalidReplyVersion")))
    ELSE IF \E k \in 1..Len(g.methods) : ~Method_try_from_ok(g.methods[k])
    THEN Eff(<<>>, <<>>, "done", Fail(E("UnknownMethod")))
    ELSE IF ~wok THEN Eff(<< "r:greeting" >>, <<>>, "done", Fail(Io("BrokenPipe")))
    ELSE IF auth.t = "NoAuth"
    THEN Eff(<< "r:greeting", "w:method" >>,
             MethodReplyBytes(NO_AUTHENTICATION_REQUIRED), "request", NoResult)
    ELSE IF ~(\E k \in 1..Len(g.methods) : g.methods[k] = USERNAME_AND_PASSWORD)
    THEN Eff(<< "r:greeting", "w:method" >>,
             MethodReplyBytes(NO_ACCEPTABLE_METHODS), "done", Fail(E("NoAcceptableMethods")))
    ELSE Eff(<< "r:greeting", "w:method" >>,
             MethodReplyBytes(USERNAME_AND_PASSWORD), "auth", NoResult)

NetwayGreet ==
    /\ impl = "netway"
    /\ pc = "greet"
    /\ \E g \in Greetings, wok \in BOOLEAN : Apply(NetwayGreetEff(g, wok)) /\ input' = g
    /\ UNCHANGED << srvVars, creds, req, conn, up, down >>

\* PasswordRequest::from_socket, the comparison, the PasswordReply.
NetwayAuthEff(a, wok) ==
    IF a.ver # AUTH_VERSION THEN Eff(<<>>, <<>>, "done", Fail(E("InvalidReplyVersion")))
    ELSE IF ~wok THEN Eff(<< "r:auth" >>, <<>>, "done", Fail(Io("BrokenPipe")))
    ELSE IF auth.u = a.u /\ auth.p = a.p
    THEN Eff(<< "r:auth", "w:auth" >>,
             PasswordReplyBytes(Status_code([ok |-> TRUE, code |-> 0])), "request", NoResult)
    ELSE Eff(<< "r:auth", "w:auth" >>,
             PasswordReplyBytes(Status_code([ok |-> FALSE, code |-> 1])), "done",
             Fail(Err("PasswordAuthFailure", "-", "0x01")))

NetwayAuth ==
    /\ impl = "netway"
    /\ pc = "auth"
    /\ \E a \in AuthRequests, wok \in BOOLEAN :
          /\ Apply(NetwayAuthEff(a, wok))
          /\ creds' = IF a.ver = AUTH_VERSION THEN a ELSE creds
    /\ UNCHANGED << cfgVars, req, conn, up, down >>

\* DstRequest::from_socket and the match on the command.
NetwayRequestEff(r, wok) ==
    IF r.ver # SOCKS_VERSION THEN Eff(<<>>, <<>>, "done", Fail(E("InvalidReplyVersion")))
    ELSE IF r.cmd \notin {CONNECT, BIND, UDP_ASSOCIATE}
    THEN Eff(<<>>, <<>>, "done", Fail(E("CommandNotSupported")))
    ELSE IF r.rsv # 0 THEN Eff(<<>>, <<>>, "done", Fail(E("InvalidReservedByte")))
    ELSE IF r.atyp # 0 THEN Eff(<<>>, <<>>, "done", Fail(E("AddressTypeNotSupported")))
    ELSE IF r.cmd = CONNECT THEN Eff(<< "r:request" >>, <<>>, "dial", NoResult)
    ELSE IF ~wok THEN Eff(<< "r:request" >>, <<>>, "done", Fail(Io("BrokenPipe")))
    ELSE Eff(<< "r:request", "w:reply" >>,
             DstReplyBytes("CommandNotSupported", DstAddrDefault), "done",
             Fail(E("CommandNotSupported")))

NetwayRequestParsed(r) ==
    /\ r.ver = SOCKS_VERSION
    /\ r.cmd \in {CONNECT, BIND, UDP_ASSOCIATE}
    /\ r.rsv = 0
    /\ r.atyp = 0

NetwayRequest ==
    /\ impl = "netway"
    /\ pc = "request"
    /\ \E r \in Requests, wok \in BOOLEAN :
          /\ Apply(NetwayRequestEff(r, wok))
          /\ req' = IF NetwayRequestParsed(r) THEN r ELSE req
    /\ UNCHANGED << cfgVars, creds, conn, up, down >>

\* A serve that starts the relay as soon as the dial succeeds, leaving the
\* DstReply out.
NetwayDialRelaysFirst(c, wok) ==
    IF c.ok THEN Eff(DialEvents(c), <<>>, "relay", NoResult)
    ELSE IF ~wok THEN Eff(DialEvents(c), <<>>, "done", Fail(Io("BrokenPipe")))
    ELSE Eff(DialEvents(c) \o << "w:reply" >>,
             DstReplyBytes(Rep_from_err(c.err), DstAddrDefault), "done", Fail(c.err))

\* self.dialer.try_connect(proxy_dst) and, when it fails, the DstReply that
\* carries Rep::from_err.
NetwayDialEff(c, wok) ==
    IF c.ok THEN Eff(DialEvents(c), <<>>, "reply", NoResult)
    ELSE IF ~wok THEN Eff(DialEvents(c), <<>>, "done", Fail(Io("BrokenPipe")))
    ELSE Eff(DialEvents(c) \o << "w:reply" >>,
             DstReplyBytes(Rep_from_err(c.err), DstAddrDefault), "done", Fail(c.err))

NetwayDial ==
    /\ impl = "netway"
    /\ pc = "dial"
    /\ \E o \in DialOutcomes("netway"), wok \in BOOLEAN :
          LET c == Dialer_try_connect(always, rules, default_proxy, req.dst, o)
          IN /\ conn' = c
             /\ Apply(NetwayDialEff(c, wok))
    /\ UNCHANGED << cfgVars, creds, req, up, down >>

\* stream.to_local_addr() and the DstReply that reports success.
NetwayReplyEff(lok, wok) ==
    IF ~lok THEN Eff(<<>>, <<>>, "done", Fail(Io("NotConnected")))
    ELSE IF ~wok THEN Eff(<< "shutdown:egress" >>, <<>>, "done", Fail(Io("BrokenPipe")))
    ELSE Eff(<< "w:reply" >>, DstReplyBytes("Succeeded", LocalAddr), "relay", NoResult)

NetwayReply ==
    /\ impl = "netway"
    /\ pc = "reply"
    /\ \E lok \in BOOLEAN, wok \in BOOLEAN : Apply(NetwayReplyEff(lok, wok))
    /\ UNCHANGED << cfgVars, creds, req, conn, up, down >>

\* copy_bidirectional moves a payload byte from the client to the egress stream.
RelayUp ==
    /\ pc = "relay"
    /\ up < MaxRelay
    /\ up' = up + 1
    /\ log' = log \o << "relay:up" >>
    /\ UNCHANGED << cfgVars, pc, out, creds, req, conn, down, result >>

\* copy_bidirectional moves a payload byte from the egress stream to the client.
RelayDown ==
    /\ pc = "relay"
    /\ down < MaxRelay
    /\ down' = down + 1
    /\ log' = log \o << "relay:down" >>
    /\ UNCHANGED << cfgVars, pc, out, creds, req, conn, up, result >>

\* A match that has no arm for NotConnected: every error of the relay is
\* returned.
NetwayRelayResultNoArm(r) ==
    IF r.ok THEN Done(up, down) ELSE Fail(r.err)

\* The match on what copy_bidirectional returned.
NetwayRelayResult(r) ==
    IF r.ok THEN Done(up, down)
    ELSE IF r.err.k = "NotConnected" THEN Done(0, 0)
    ELSE Fail(r.err)

NetwayRelayEnd ==
    /\ impl = "netway"
    /\ pc = "relay"
    /\ \E r \in {OkOutcome} \cup {ErrOutcome(Io(k)) : k \in {"NotConnected", "BrokenPipe"}} :
          Return(NetwayRelayResult(r))
    /\ UNCHANGED << cfgVars, log, out, creds, req, conn, up, down >>

(***************************************************************************)
(* Server::call (proxy-socks).  Every error path of prepare, prepare_with  *)
(* and handle ends in call's socket.shutdown().                            *)
(***************************************************************************)
SocksAbort(evs, bytes, e) == Eff(evs \o << "shutdown:client" >>, bytes, "done", Fail(e))

SelectionBytes(m) == << SOCKS_VERSION, m >>
StatusBytes(status) == << AUTH_VERSION, status >>
ReplyBytes(rep) == << SOCKS_VERSION, RepCode(rep), 0 >> \o SocketAddrBytes(TargetAddrDefault)

\* The method the server requires of the greeting.
SocksRequired == IF auth.t = "NoAuth" THEN NO_AUTHENTICATION_REQUIRED ELSE USERNAME_AND_PASSWORD

\* CandidateMethods::read, is_valid, and the Selection written by prepare or
\* by prepare_with.
SocksPrepareEff(g, wok) ==
    IF g.ver # SOCKS_VERSION THEN SocksAbort(<< "r:greeting" >>, <<>>, io_err("InvalidVersion"))
    ELSE IF ~wok THEN SocksAbort(<< "r:greeting" >>, <<>>, IoError("BrokenPipe"))
    ELSE IF ~(\E k \in 1..Len(g.methods) : g.methods[k] = SocksRequired)
    THEN SocksAbort(<< "r:greeting", "w:method" >>, SelectionBytes(NO_ACCEPTABLE_METHODS),
                    io_err("NoAcceptableMethods"))
    ELSE Eff(<< "r:greeting", "w:method" >>, SelectionBytes(SocksRequired),
             IF auth.t = "NoAuth" THEN "request" ELSE "auth", NoResult)

SocksPrepare ==
    /\ impl = "socks"
    /\ pc = "greet"
    /\ \E g \in Greetings, wok \in BOOLEAN : Apply(SocksPrepareEff(g, wok)) /\ input' = g
    /\ UNCHANGED << srvVars, creds, req, conn, up, down >>

\* Authenticator::authenticate of the configured username and password.
authenticate(u, p) == auth.t = "NoAuth" \/ (auth.u = u /\ auth.p = p)

\* A prepare_with that reports the failure to the client and carries on.
SocksAuthCarriesOn(a, wok) ==
    IF a.ver # AUTH_VERSION THEN SocksAbort(<< "r:auth" >>, <<>>, io_err("InvalidVersion"))
    ELSE IF ~wok THEN SocksAbort(<< "r:auth" >>, <<>>, IoError("BrokenPipe"))
    ELSE IF ~authenticate(a.u, a.p)
    THEN Eff(<< "r:auth", "w:auth" >>, StatusBytes(1), "request", NoResult)
    ELSE Eff(<< "r:auth", "w:auth" >>, StatusBytes(AUTH_SUCCEED), "request", NoResult)

\* UsernameAndPassword::read, is_valid, authenticate, and the Status written.
SocksAuthEff(a, wok) ==
    IF a.ver # AUTH_VERSION THEN SocksAbort(<< "r:auth" >>, <<>>, io_err("InvalidVersion"))
    ELSE IF ~wok THEN SocksAbort(<< "r:auth" >>, <<>>, IoError("BrokenPipe"))
    ELSE IF ~authenticate(a.u, a.p)
    THEN SocksAbort(<< "r:auth", "w:auth" >>, StatusBytes(1), io_err("Unauthorized"))
    ELSE Eff(<< "r:auth", "w:auth" >>, StatusBytes(AUTH_SUCCEED), "request", NoResult)

SocksAuth ==
    /\ impl = "socks"
    /\ pc = "auth"
    /\ \E a \in AuthRequests, wok \in BOOLEAN :
          /\ Apply(SocksAuthEff(a, wok))
          /\ creds' = a
    /\ UNCHANGED << cfgVars, req, conn, up, down >>

\* Request::read, is_valid, and handle's choice on the target and the command.
SocksHandleEff(r, wok) ==
    IF r.ver # SOCKS_VERSION THEN SocksAbort(<< "r:request" >>, <<>>, io_err("InvalidVersion"))
    ELSE IF r.atyp # 0
    THEN IF wok THEN SocksAbort(<< "r:request", "w:reply" >>,
                                ReplyBytes("AddressTypeNotSupported"),
                                io_err("AddressTypeNotSupported"))
         ELSE SocksAbort(<< "r:request" >>, <<>>, IoError("BrokenPipe"))
    ELSE IF r.cmd = CONNECT THEN Eff(<< "r:request" >>, <<>>, "dial", NoResult)
    ELSE IF wok THEN SocksAbort(<< "r:request", "w:reply" >>,
                                ReplyBytes("CommandNotSupported"),
                                io_err("CommandNotSupported"))
    ELSE SocksAbort(<< "r:request" >>, <<>>, IoError("BrokenPipe"))

SocksHandle ==
    /\ impl = "socks"
    /\ pc = "request"
    /\ \E r \in Requests, wok \in BOOLEAN :
          /\ Apply(SocksHandleEff(r, wok))
          /\ req' = r
    /\ UNCHANGED << cfgVars, creds, conn, up, down >>

\* self.connect.call(target) and, when it fails, the Reply chosen from the
\* error's io kind; a failure to write that Reply is only logged.
SocksConnectEff(c, wok) ==
    IF c.ok THEN Eff(DialEvents(c), <<>>, "reply", NoResult)
    ELSE IF wok THEN SocksAbort(DialEvents(c) \o << "w:reply" >>,
                                ReplyBytes(Socks_rep_of(c.err)), c.err)
    ELSE SocksAbort(DialEvents(c), <<>>, c.err)

SocksConnect ==
    /\ impl = "socks"
    /\ pc = "dial"
    /\ \E o \in DialOutcomes("socks"), wok \in BOOLEAN :
          LET c == ProxyConnect_call(rules, force_proxy, default_proxy, req.dst, o)
          IN /\ conn' = c
             /\ Apply(SocksConnectEff(c, wok))
    /\ UNCHANGED << cfgVars, creds, req, up, down >>

\* Reply::new(Rep::Succeeded).write; on failure the egress stream is shut down.
SocksReplyEff(wok) ==
    IF wok THEN Eff(<< "w:reply" >>, ReplyBytes("Succeeded"), "relay", NoResult)
    ELSE Eff(<< "shutdown:egress" >>, <<>>, "done", Fail(IoError("BrokenPipe")))

SocksReply ==
    /\ impl = "socks"
    /\ pc = "reply"
    /\ \E wok \in BOOLEAN : Apply(SocksReplyEff(wok))
    /\ UNCHANGED << cfgVars, creds, req, conn, up, down >>

\* Duplex::new(socket, conn).await completes; call returns what it returned.
SocksRelayEnd ==
    /\ impl = "socks"
    /\ pc = "relay"
    /\ \E r \in {OkOutcome, ErrOutcome(IoError("BrokenPipe"))} :
          Return(IF r.ok THEN Done(0, 0) ELSE Fail(r.err))
    /\ UNCHANGED << cfgVars, log, out, creds, req, conn, up, down >>

\* The peer closes, or the stream fails, before the message serve is waiting
\* for is complete.
ReadEof ==
    /\ pc \in {"greet", "auth", "request"}
    /\ IF impl = "netway"
       THEN Apply(Eff(<<>>, <<>>, "done", Fail(Io("UnexpectedEof"))))
       ELSE Apply(SocksAbort(<<>>, <<>>, IoError("UnexpectedEof")))
    /\ UNCHANGED << cfgVars, creds, req, conn, up, down >>

Next ==
    \/ NetwayGreet
    \/ NetwayAuth
    \/ NetwayRequest
    \/ NetwayDial
    \/ NetwayReply
    \/ NetwayRelayEnd
    \/ SocksPrepare
    \/ SocksAuth
    \/ SocksHandle
    \/ SocksConnect
    \/ SocksReply
    \/ SocksRelayEnd
    \/ RelayUp
    \/ RelayDown
    \/ ReadEof

Spec == Init /\ [][Next]_vars

(***************************************************************************)
(* The HTTP CONNECT servers: ProxyServer::serve of netway and Server::call *)
(* of proxy-tunnel, on one CONNECT request.  A text is the sequence of its *)
(* pieces, with ":" a piece of its own.                                    *)
(***************************************************************************)
\* base64::decode of the text after "Basic ", and whether the bytes are UTF-8.
base64_decode(t) ==
    CASE t = << >> -> [ok |-> TRUE, utf8 |-> TRUE, text |-> << >>]
      [] t = << "dXNlcjpwYXNz" >> -> [ok |-> TRUE, utf8 |-> TRUE, text |-> << "user", ":", "pass" >>]
      [] t = << "dXNlcjpndWVzcw==" >> -> [ok |-> TRUE, utf8 |-> TRUE, text |-> << "user", ":", "guess" >>]
      [] t = << "cm9vdDpwYXNz" >> -> [ok |-> TRUE, utf8 |-> TRUE, text |-> << "root", ":", "pass" >>]
      [] t = << "dXNlcnBhc3M=" >> -> [ok |-> TRUE, utf8 |-> TRUE, text |-> << "userpass" >>]
      [] t = << "/w==" >> -> [ok |-> TRUE, utf8 |-> FALSE, text |-> << >>]
      [] OTHER -> [ok |-> FALSE, utf8 |-> FALSE, text |-> << >>]

\* str::find(':'): the first position of ':', 0 for None.
find_colon(t) ==
    IF Positions(t, ":") = {} THEN 0
    ELSE CHOOSE k \in Positions(t, ":") : \A j \in Positions(t, ":") : k <= j

\* A text that holds no ':' as the &str a credential is compared with.
Word(t) == IF Len(t) = 0 THEN "" ELSE IF Len(t) = 1 THEN t[1] ELSE "?"

\* format!("{}:{}", username, password)
UserColonPass == << auth.u, ":", auth.p >>

\* The Proxy-Authorization header of a request: none, or a scheme and what
\* follows it.
NoHeader == [present |-> FALSE, scheme |-> "", payload |-> << >>]
AuthPayloads ==
    {<< >>, << "dXNlcjpwYXNz" >>, << "dXNlcjpndWVzcw==" >>, << "cm9vdDpwYXNz" >>,
     << "dXNlcnBhc3M=" >>, << "/w==" >>, << "!" >>, << "user", ":", "pass" >>,
     << "user", ":", "guess" >>}
AuthHeaders == {NoHeader} \cup [present : {TRUE}, scheme : {"Basic ", "Bearer "}, payload : AuthPayloads]

HttpRequests == [header : AuthHeaders, wok : BOOLEAN, dial : BOOLEAN]

ProxyAuthenticate == "Basic realm=Proxy Server"

\* What the server did with the request: the status and the Proxy-Authenticate
\* header of its response, what serve or call returned, whether it panicked,
\* and whether the dialer was invoked.
HttpOut(status, hdr, err, dialed) ==
    [status |-> status, authenticate |-> hdr, err |-> err, panic |-> FALSE, dialed |-> dialed]
HttpPanic == [status |-> 0, authenticate |-> "", err |-> NoErr, panic |-> TRUE, dialed |-> FALSE]

\* The loop over the headers in ProxyServer::serve (netway).
tunnel_authed(h) ==
    /\ h.present
    /\ LET encoded == IF h.scheme = "Basic " THEN h.payload ELSE << >>
           decoded == base64_decode(encoded)
       IN  decoded.ok /\ decoded.utf8 /\ decoded.text = UserColonPass

\* ProxyServer::serve (netway) after the request line and the headers.
tunnel_serve(r) ==
    IF auth.t = "Basic" /\ ~tunnel_authed(r.header)
    THEN IF r.wok THEN HttpOut(407, ProxyAuthenticate, Io("PermissionDenied"), FALSE)
         ELSE HttpOut(0, "", Io("BrokenPipe"), FALSE)
    ELSE IF r.dial
    THEN IF r.wok THEN HttpOut(200, "", NoErr, TRUE) ELSE HttpOut(0, "", Io("BrokenPipe"), TRUE)
    ELSE IF r.wok THEN HttpOut(503, "", Io("ConnectionRefused"), TRUE)
         ELSE HttpOut(0, "", Io("BrokenPipe"), TRUE)

\* Server::call (proxy-tunnel) on a CONNECT with an authority: the header is
\* indexed, split at the first ':' after "Basic ", and given to authenticate.
\* The response is returned; the spawned task invokes the dialer.
Server_call(r) ==
    IF auth.t # "Basic" THEN HttpOut(200, "", NoErr, TRUE)
    ELSE IF ~r.header.present THEN HttpPanic
    ELSE IF r.header.scheme # "Basic " \/ find_colon(r.header.payload) = 0
    THEN HttpOut(407, ProxyAuthenticate, NoErr, FALSE)
    ELSE LET n == find_colon(r.header.payload)
             u == SubSeq(r.header.payload, 1, n - 1)
             p == SubSeq(r.header.payload, n + 1, Len(r.header.payload))
         IN  IF authenticate(Word(u), Word(p)) THEN HttpOut(200, "", NoErr, TRUE)
             ELSE HttpOut(401, "", NoErr, FALSE)

InitHttp ==
    /\ impl \in Impls
    /\ auth \in {NoAuth} \cup {Basic(u, p) : u \in Users, p \in Passwords}
    /\ always = "None"
    /\ rules = <<>>
    /\ default_proxy = FALSE
    /\ force_proxy = FALSE
    /\ pc = "http"
    /\ log = <<>>
    /\ out = <<>>
    /\ creds = NoCreds
    /\ req = NoReq
    /\ conn = NoConn
    /\ up = 0
    /\ down = 0
    /\ result = NoResult
    /\ input \in HttpRequests
    /\ output = NoOutput

HttpServe ==
    /\ pc = "http"
    /\ output' = IF impl = "netway" THEN tunnel_serve(input) ELSE Server_call(input)
    /\ pc' = "served"
    /\ UNCHANGED << impl, auth, always, rules, default_proxy, force_proxy, input,
                    log, out, creds, req, conn, up, down, result >>

NextHttp == HttpServe

SpecHttp == InitHttp /\ [][NextHttp]_vars

(***************************************************************************)
(* The HTTP CONNECT servers after authentication: the dial, the response,  *)
(* the relay.  The response is the pieces of its status line.              *)
(***************************************************************************)
\* write_resp of a StatusLine with no headers.
StatusLine(status, message) == << "HTTP/1.1", status, message >>

ConnectTargets == {DomainDst(HostBT, 80), DomainDst(HostABT, 443)}

InitTunnel ==
    /\ impl \in Impls
    /\ auth = NoAuth
    /\ always = "None"
    /\ rules \in ServerRuleLists
    /\ default_proxy \in BOOLEAN
    /\ force_proxy \in (IF impl = "socks" THEN BOOLEAN ELSE {FALSE})
    /\ pc = IF impl = "netway" THEN "t:dial" ELSE "t:call"
    /\ log = <<>>
    /\ out = <<>>
    /\ creds = NoCreds
    /\ req = NoReq
    /\ conn = NoConn
    /\ up = 0
    /\ down = 0
    /\ result = NoResult
    /\ input \in ConnectTargets
    /\ output = NoOutput

\* ProxyServer::serve (netway): self.dialer.try_connect(dst) and, when it
\* fails, the 503 response.
TunnelDialEff(c, wok) ==
    IF c.ok THEN Eff(DialEvents(c) \o << "dial:ok" >>, <<>>, "t:reply", NoResult)
    ELSE IF ~wok THEN Eff(DialEvents(c) \o << "dial:err" >>, <<>>, "done", Fail(Io("BrokenPipe")))
    ELSE Eff(DialEvents(c) \o << "dial:err", "w:503" >>,
             StatusLine("503", "Service Uavailable"), "done", Fail(c.err))

TunnelDial ==
    /\ impl = "netway"
    /\ pc = "t:dial"
    /\ \E o \in DialOutcomes("netway"), wok \in BOOLEAN :
          LET c == Dialer_try_connect(always, rules, default_proxy, input, o)
          IN /\ conn' = c
             /\ Apply(TunnelDialEff(c, wok))
    /\ UNCHANGED << cfgVars, creds, req, up, down >>

\* ProxyServer::serve (netway): the 200 response; when the write fails the
\* egress stream is shut down.
TunnelReplyEff(wok) ==
    IF wok THEN Eff(<< "w:200" >>, StatusLine("200", "OK"), "relay", NoResult)
    ELSE Eff(<< "shutdown:egress" >>, <<>>, "done", Fail(Io("BrokenPipe")))

TunnelReply ==
    /\ impl = "netway"
    /\ pc = "t:reply"
    /\ \E wok \in BOOLEAN : Apply(TunnelReplyEff(wok))
    /\ UNCHANGED << cfgVars, creds, req, conn, up, down >>

\* Server::call (proxy-tunnel): the task that will upgrade and dial is
\* spawned, and call returns Response::new(Body::empty()), a 200.
CallRespond ==
    /\ impl = "socks"
    /\ pc = "t:call"
    /\ log' = log \o << "spawn", "w:200" >>
    /\ out' = out \o StatusLine("200", "OK")
    /\ result' = Done(0, 0)
    /\ pc' = "t:upgrade"
    /\ UNCHANGED << cfgVars, creds, req, conn, up, down >>

\* The spawned task: hyper::upgrade::on(req).await.
TaskUpgrade ==
    /\ impl = "socks"
    /\ pc = "t:upgrade"
    /\ \E uok \in BOOLEAN : pc' = IF uok THEN "t:connect" ELSE "done"
    /\ UNCHANGED << cfgVars, log, out, creds, req, conn, up, down, result >>

\* The spawned task: connect.call(TargetAddr::Domain(host, port)); when it
\* fails the error is logged and the upgraded connection is shut down.
TaskConnect ==
    /\ impl = "socks"
    /\ pc = "t:connect"
    /\ \E o \in DialOutcomes("socks") :
          LET c == ProxyConnect_call(rules, force_proxy, default_proxy, input, o)
          IN /\ conn' = c
             /\ log' = log \o DialEvents(c) \o
                       (IF c.ok THEN << "dial:ok" >> ELSE << "dial:err", "shutdown:client" >>)
             /\ pc' = IF c.ok THEN "relay" ELSE "done"
    /\ UNCHANGED << cfgVars, out, creds, req, up, down, result >>

\* The spawned task: Duplex::new(upgraded, stream).await completes; an error
\* is logged.
TaskRelayEnd ==
    /\ impl = "socks"
    /\ pc = "relay"
    /\ pc' = "done"
    /\ UNCHANGED << cfgVars, log, out, creds, req, conn, up, down, result >>

NextTunnel ==
    \/ TunnelDial
    \/ TunnelReply
    \/ RelayUp
    \/ RelayDown
    \/ NetwayRelayEnd
    \/ CallRespond
    \/ TaskUpgrade
    \/ TaskConnect
    \/ TaskRelayEnd

SpecTunnel == InitTunnel /\ [][NextTunnel]_vars

(***************************************************************************)
(* The proxy dialers: ProxySocks5, tunnel::ProxyDialer and                 *)
(* tunnel_tls::ProxyDialer of netway, the Client of proxy-socks and of     *)
(* proxy-tunnel.  input is the dialer and how it was built, output is what *)
(* the proxy has answered so far, out is what the dialer wrote.            *)
(***************************************************************************)
\* What the proxy can do when the dialer reads: -1 is the end of the stream.
Eof == 0 - 1
TcpOutcomes == {"ok", "ConnectionRefused", "HostUnreachable"}
TlsOutcomes == {"ok", "builder", "handshake"}
MethodReplies == {NO_AUTHENTICATION_REQUIRED, USERNAME_AND_PASSWORD, NO_ACCEPTABLE_METHODS, 128, Eof}
StatusReplies == {0, 1, Eof}
RepReplies == (0..9) \cup {Eof}

\* The response of an HTTP proxy: the status, the words of the reason phrase,
\* the value of a Content-Type header or none, the value of a Content-Length
\* header (0 for none) with as many octets of body, and whether the proxy
\* then closes.  line tells the status line apart: full, with its three
\* parts or more; short, "HTTP/1.1 200" with two; eof, the proxy closed
\* before it.  colon tells whether every header line has its ':'.
HttpResponses ==
    [status : {"200", "407", "503"}, words : {1, 2}, ctype : {"none", "text/html", "0", "2"},
     clen : {0, 2}, closes : BOOLEAN, line : {"full"}, colon : {TRUE}]
    \cup [status : {"200"}, words : {1}, ctype : {"none"}, clen : {0}, closes : BOOLEAN,
          line : {"eof", "short"}, colon : {TRUE}]
    \cup [status : {"200", "503"}, words : {1}, ctype : {"none"}, clen : {0}, closes : BOOLEAN,
          line : {"full"}, colon : {FALSE}]
NoResponse == [status |-> "-", words |-> 0, ctype |-> "none", clen |-> 0, closes |-> FALSE,
               line |-> "full", colon |-> TRUE]

NoPeer == [tcp |-> "-", tls |-> "-", method |-> Eof, status |-> Eof, rep |-> Eof,
           http |-> NoResponse, read |-> FALSE, body |-> 0]

DialTarget == SocketDst(Ip10, 80)

Protos(i) == IF i = "netway" THEN {"socks5", "http", "https"} ELSE {"socks5", "http"}

InitDialer ==
    /\ impl \in Impls
    /\ auth \in {NoAuth, Basic("user", "pass")}
    /\ always = "None"
    /\ rules = <<>>
    /\ default_proxy = FALSE
    /\ force_proxy = FALSE
    /\ pc = "d:tcp"
    /\ log = <<>>
    /\ out = <<>>
    /\ creds = NoCreds
    /\ req = NoReq
    /\ conn = NoConn
    /\ up = 0
    /\ down = 0
    /\ result = NoResult
    /\ input \in [proto : Protos(impl), debug : BOOLEAN]
    /\ output = NoPeer

dialerVars == << impl, auth, always, rules, default_proxy, force_proxy, input,
                 creds, req, conn, up, down >>

\* The stream the dialer returns.
Stream == Done(0, 0)

\* The Err arms of try_connect (netway) once the stream is open: the stream is
\* shut down, the error is ProxyServerUnreachable.
NetwayDialAbort(evs, bytes) ==
    Eff(evs \o << "shutdown:proxy" >>, bytes, "done", Fail(E("ProxyServerUnreachable")))

\* The Err arm of Client::call (proxy-socks, proxy-tunnel): the socket is shut
\* down, the error is returned as it is.
SocksDialAbort(evs, bytes, e) == Eff(evs \o << "shutdown:proxy" >>, bytes, "done", Fail(e))

AfterTcp(proto) ==
    CASE proto = "socks5" -> "d:greet"
      [] proto = "http" -> "d:http"
      [] proto = "https" -> "d:tls"

\* TcpStream::connect to the proxy, and the Err(_) arm of try_connect (netway);
\* self.connect.call(()) and future.await? (proxy-socks, proxy-tunnel).
DialTcpEff(t) ==
    IF t = "ok" THEN Eff(<< "tcp:ok" >>, <<>>, AfterTcp(input.proto), NoResult)
    ELSE IF impl = "netway"
    THEN Eff(<< "tcp:err" >>, <<>>, "done", Fail(E("ProxyServerUnreachable")))
    ELSE Eff(<< "tcp:err" >>, <<>>, "done", Fail(IoError(t)))

DialTcp ==
    /\ pc = "d:tcp"
    /\ \E t \in TcpOutcomes :
          /\ output' = [output EXCEPT !.tcp = t]
          /\ Apply(DialTcpEff(t))
    /\ UNCHANGED dialerVars

\* tunnel_tls::ProxyDialer: the TlsConnector, then the handshake, which takes
\* the stream.
DialTlsEff(h) ==
    CASE h = "ok" -> Eff(<< "tls:ok" >>, <<>>, "d:http", NoResult)
      [] h = "builder" -> Eff(<< "tls:err", "shutdown:proxy" >>, <<>>, "done",
                              Fail(E("ProxyServerUnreachable")))
      [] h = "handshake" -> Eff(<< "tls:err" >>, <<>>, "done", Fail(E("ProxyServerUnreachable")))

DialTls ==
    /\ impl = "netway"
    /\ pc = "d:tls"
    /\ \E h \in TlsOutcomes :
          /\ output' = [output EXCEPT !.tls = h]
          /\ Apply(DialTlsEff(h))
    /\ UNCHANGED dialerVars

\* auth_socks5_socket (netway): the MethodRequest and the match on the
\* MethodReply.
NetwayClientGreetEff(m, wok) ==
    LET bytes == << SOCKS_VERSION, 1,
                    IF auth.t = "NoAuth" THEN NO_AUTHENTICATION_REQUIRED ELSE USERNAME_AND_PASSWORD >>
    IN  IF ~wok THEN NetwayDialAbort(<<>>, <<>>)
        ELSE IF m = Eof THEN NetwayDialAbort(<< "w:greeting" >>, bytes)
        ELSE IF ~Method_try_from_ok(m) THEN NetwayDialAbort(<< "w:greeting", "r:method" >>, bytes)
        ELSE IF m = NO_AUTHENTICATION_REQUIRED
        THEN Eff(<< "w:greeting", "r:method" >>, bytes, "d:request", NoResult)
        ELSE IF m = USERNAME_AND_PASSWORD /\ auth.t = "Basic"
        THEN Eff(<< "w:greeting", "r:method" >>, bytes, "d:auth", NoResult)
        ELSE NetwayDialAbort(<< "w:greeting", "r:method" >>, bytes)

\* proxy_socks (proxy-socks): the CandidateMethods and the match on the
\* Selection.
SocksClientGreetEff(m, wok) ==
    LET bytes == IF auth.t = "NoAuth" THEN << SOCKS_VERSION, 1, NO_AUTHENTICATION_REQUIRED >>
                 ELSE << SOCKS_VERSION, 2, NO_AUTHENTICATION_REQUIRED, USERNAME_AND_PASSWORD >>
    IN  IF ~wok THEN SocksDialAbort(<<>>, <<>>, IoError("BrokenPipe"))
        ELSE IF m = Eof THEN SocksDialAbort(<< "w:greeting" >>, bytes, IoError("UnexpectedEof"))
        ELSE IF m = NO_AUTHENTICATION_REQUIRED
        THEN Eff(<< "w:greeting", "r:method" >>, bytes, "d:request", NoResult)
        ELSE IF m = USERNAME_AND_PASSWORD
        THEN IF auth.t = "Basic"
             THEN Eff(<< "w:greeting", "r:method" >>, bytes, "d:auth", NoResult)
             ELSE SocksDialAbort(<< "w:greeting", "r:method" >>, bytes, io_err("UnknownMethod"))
        ELSE IF m = NO_ACCEPTABLE_METHODS
        THEN SocksDialAbort(<< "w:greeting", "r:method" >>, bytes, io_err("NoAcceptableMethods"))
        ELSE SocksDialAbort(<< "w:greeting", "r:method" >>, bytes, io_err("UnknownMethod"))

ClientGreet ==
    /\ pc = "d:greet"
    /\ \E m \in MethodReplies, wok \in BOOLEAN :
          /\ output' = [output EXCEPT !.method = IF wok THEN m ELSE Eof]
          /\ Apply(IF impl = "netway" THEN NetwayClientGreetEff(m, wok)
                   ELSE SocksClientGreetEff(m, wok))
    /\ UNCHANGED dialerVars

\* The username and the password of the model on the wire: four bytes each.
CredentialBytes == write_fixed(Ascii(4)) \o write_fixed(Ascii(4))

\* auth_socks5_socket (netway): the PasswordRequest and the match on the
\* Status of the PasswordReply.
NetwayClientAuthEff(st, wok) ==
    LET bytes == << AUTH_VERSION >> \o CredentialBytes
    IN  IF ~wok THEN NetwayDialAbort(<<>>, <<>>)
        ELSE IF st = Eof THEN NetwayDialAbort(<< "w:auth" >>, bytes)
        ELSE IF Status_try_from(st).ok
        THEN Eff(<< "w:auth", "r:auth" >>, bytes, "d:request", NoResult)
        ELSE NetwayDialAbort(<< "w:auth", "r:auth" >>, bytes)

\* proxy_socks (proxy-socks): UsernameAndPassword::new(u, p).write, which
\* carries SOCKS_VERSION, and Status::read.
SocksClientAuthEff(st, wok) ==
    LET bytes == << SOCKS_VERSION >> \o CredentialBytes
    IN  IF ~wok THEN SocksDialAbort(<<>>, <<>>, IoError("BrokenPipe"))
        ELSE IF st = Eof THEN SocksDialAbort(<< "w:auth" >>, bytes, IoError("UnexpectedEof"))
        ELSE IF Status_is_succeed(st)
        THEN Eff(<< "w:auth", "r:auth" >>, bytes, "d:request", NoResult)
        ELSE SocksDialAbort(<< "w:auth", "r:auth" >>, bytes, io_err("Unauthorized"))

ClientAuth ==
    /\ pc = "d:auth"
    /\ \E st \in StatusReplies, wok \in BOOLEAN :
          /\ output' = [output EXCEPT !.status = IF wok THEN st ELSE Eof]
          /\ Apply(IF impl = "netway" THEN NetwayClientAuthEff(st, wok)
                   ELSE SocksClientAuthEff(st, wok))
    /\ UNCHANGED dialerVars

RequestBytes == << SOCKS_VERSION, CONNECT, 0 >> \o SocketAddrBytes(DialTarget)

\* proxy_connect and the arms of ProxySocks5::try_connect (netway): the
\* DstRequest, the DstReply, and the match on its Rep.
NetwayClientRequestEff(rep, wok) ==
    IF ~wok THEN NetwayDialAbort(<<>>, <<>>)
    ELSE IF rep = Eof THEN NetwayDialAbort(<< "w:request" >>, RequestBytes)
    ELSE IF rep = 0 THEN Eff(<< "w:request", "r:reply" >>, RequestBytes, "done", Stream)
    ELSE NetwayDialAbort(<< "w:request", "r:reply" >>, RequestBytes)

\* The match on reply.rep() in proxy_socks (proxy-socks).
Socks_err_of_rep(rep) ==
    CASE rep = 1 -> io_err("GeneralSocksServerFailure")
      [] rep = 2 -> io_err("ConnectionNotAllowedByRuleset")
      [] rep = 3 -> IoError("NetworkUnreachable")
      [] rep = 4 -> IoError("HostUnreachable")
      [] rep = 5 -> IoError("ConnectionRefused")
      [] rep = 6 -> io_err("TtlExpired")
      [] rep = 7 -> io_err("CommandNotSupported")
      [] rep = 8 -> io_err("AddressTypeNotSupported")
      [] OTHER -> io_err("UnknownRep")

\* proxy_socks (proxy-socks): Request::new(target).write and Reply::read.
SocksClientRequestEff(rep, wok) ==
    IF ~wok THEN SocksDialAbort(<<>>, <<>>, IoError("BrokenPipe"))
    ELSE IF rep = Eof THEN SocksDialAbort(<< "w:request" >>, RequestBytes, IoError("UnexpectedEof"))
    ELSE IF rep = 0 THEN Eff(<< "w:request", "r:reply" >>, RequestBytes, "done", Stream)
    ELSE SocksDialAbort(<< "w:request", "r:reply" >>, RequestBytes, Socks_err_of_rep(rep))

ClientRequest ==
    /\ pc = "d:request"
    /\ \E rep \in RepReplies, wok \in BOOLEAN :
          /\ output' = [output EXCEPT !.rep = IF wok THEN rep ELSE Eof]
          /\ Apply(IF impl = "netway" THEN NetwayClientRequestEff(rep, wok)
                   ELSE SocksClientRequestEff(rep, wok))
    /\ UNCHANGED dialerVars

\* The CONNECT request the dialer writes, as its pieces.
ConnectRequest == << "CONNECT" >>

\* What the dialer does in a panic: nothing is returned.
Panicked == [st |-> "panic", err |-> NoErr, up |-> 0, down |-> 0]

\* tunnel::proxy_connect and the arms of ProxyDialer::try_connect (netway):
\* read_status_line, which slices [start..start + size - 1] and indexes
\* splits[1] and splits[2] after its debug_assert on three splits;
\* read_headers, which indexes splits[1] of splitn(2, ':'); the body size
\* parsed from the value of content-type; the status parsed as u16.
\* The body_size of proxy_connect: the value of the header whose name is
\* content-type, parsed as usize; -1 when it does not parse.
body_size(r) ==
    CASE r.ctype = "none" -> 0
      [] r.ctype = "0" -> 0
      [] r.ctype = "2" -> 2
      [] OTHER -> 0 - 1

\* read_exact of body_size octets meets the end of the stream: the proxy sent
\* fewer octets of body and closed.
BodyCutShort(r) == body_size(r) > r.clen /\ r.closes

\* The octets proxy_connect reads after the header block.
BodyRead(r) == IF body_size(r) > 0 /\ ~BodyCutShort(r) THEN body_size(r) ELSE 0

NetwayClientHttpEff(r, wok) ==
    IF ~wok THEN NetwayDialAbort(<<>>, <<>>)
    ELSE IF r.line # "full"
    THEN Eff(<< "w:connect" >>, ConnectRequest, "done", Panicked)
    ELSE IF r.words # 1 /\ input.debug
    THEN Eff(<< "w:connect", "r:status" >>, ConnectRequest, "done", Panicked)
    ELSE IF ~r.colon
    THEN Eff(<< "w:connect", "r:status" >>, ConnectRequest, "done", Panicked)
    ELSE IF body_size(r) < 0 \/ BodyCutShort(r)
    THEN NetwayDialAbort(<< "w:connect", "r:status", "r:headers" >>, ConnectRequest)
    ELSE IF r.status = "200"
    THEN Eff(<< "w:connect", "r:status", "r:headers" >>, ConnectRequest, "done", Stream)
    ELSE NetwayDialAbort(<< "w:connect", "r:status", "r:headers" >>, ConnectRequest)

\* ProxyTunnel::poll (proxy-tunnel): the request is sent, then the buffer is
\* read until it starts with the 200 status line and ends with an empty line;
\* on any other response the read goes on until the proxy closes.
SocksClientHttpEff(r, wok) ==
    IF ~wok THEN SocksDialAbort(<<>>, <<>>, IoError("WriteZero"))
    ELSE IF r.line = "eof"
    THEN SocksDialAbort(<< "w:connect", "r:eof" >>, ConnectRequest, IoError("UnexpectedEof"))
    ELSE IF r.status = "200"
    THEN Eff(<< "w:connect", "r:status", "r:headers" >>, ConnectRequest, "done", Stream)
    ELSE IF r.closes
    THEN SocksDialAbort(<< "w:connect", "r:status", "r:headers", "r:eof" >>, ConnectRequest,
                        IoError("UnexpectedEof"))
    ELSE Eff(<< "w:connect", "r:status", "r:headers" >>, ConnectRequest, "d:wait", NoResult)

ClientHttp ==
    /\ pc = "d:http"
    /\ \E r \in HttpResponses, wok \in BOOLEAN :
          /\ output' = [output EXCEPT !.http = IF wok THEN r ELSE NoResponse, !.read = wok /\ r.line # "eof",
                                      !.body = IF wok /\ impl = "netway" THEN BodyRead(r) ELSE 0]
          /\ Apply(IF impl = "netway" THEN NetwayClientHttpEff(r, wok)
                   ELSE SocksClientHttpEff(r, wok))
    /\ UNCHANGED dialerVars

\* ProxyTunnel::poll (proxy-tunnel) still reading: the proxy closes at last.
ClientHttpEof ==
    /\ impl = "socks"
    /\ pc = "d:wait"
    /\ Apply(SocksDialAbort(<< "r:eof" >>, <<>>, IoError("UnexpectedEof")))
    /\ UNCHANGED << dialerVars, output >>

NextDialer ==
    \/ DialTcp
    \/ DialTls
    \/ ClientGreet
    \/ ClientAuth
    \/ ClientRequest
    \/ ClientHttp
    \/ ClientHttpEof

SpecDialer == InitDialer /\ [][NextDialer]_vars

(***************************************************************************)
(* The relay of netway's two servers: copy_bidirectional(socket, stream)   *)
(* and the match on what it returns.  The two half-duplex copies are kept  *)
(* in output: a2b copies from the client to the egress stream, b2a from    *)
(* the egress stream to the client; r is what copy_bidirectional returned. *)
(***************************************************************************)
Halves == [a2b |-> "copy", b2a |-> "copy", r |-> "-"]

RelayErrorKinds == {"NotConnected", "BrokenPipe", "ConnectionReset"}

InitRelay ==
    /\ impl = "netway"
    /\ auth = NoAuth
    /\ always = "None"
    /\ rules = <<>>
    /\ default_proxy = FALSE
    /\ force_proxy = FALSE
    /\ pc = "relay"
    /\ log = <<>>
    /\ out = <<>>
    /\ creds = NoCreds
    /\ req = NoReq
    /\ conn = NoConn
    /\ up = 0
    /\ down = 0
    /\ result = NoResult
    /\ input \in {"socks5", "http"}
    /\ output = Halves

relayVars == << impl, auth, always, rules, default_proxy, force_proxy, input,
                out, creds, req, conn >>

\* The a2b half reads a byte from the client and writes it to the egress stream.
CopyUp ==
    /\ pc = "relay"
    /\ output.a2b = "copy"
    /\ up < MaxRelay
    /\ up' = up + 1
    /\ log' = log \o << "relay:up" >>
    /\ UNCHANGED << relayVars, pc, down, result, output >>

\* The b2a half reads a byte from the egress stream and writes it to the client.
CopyDown ==
    /\ pc = "relay"
    /\ output.b2a = "copy"
    /\ down < MaxRelay
    /\ down' = down + 1
    /\ log' = log \o << "relay:down" >>
    /\ UNCHANGED << relayVars, pc, up, result, output >>

\* The a2b half reads the end of the client's stream: it shuts the writer of
\* the egress stream down and is finished.
EofUp ==
    /\ pc = "relay"
    /\ output.a2b = "copy"
    /\ output' = [output EXCEPT !.a2b = "done"]
    /\ log' = log \o << "eof:client", "shutdown:egress" >>
    /\ UNCHANGED << relayVars, pc, up, down, result >>

\* The b2a half reads the end of the egress stream: it shuts the writer of
\* the client's stream down and is finished.
EofDown ==
    /\ pc = "relay"
    /\ output.b2a = "copy"
    /\ output' = [output EXCEPT !.b2a = "done"]
    /\ log' = log \o << "eof:egress", "shutdown:client" >>
    /\ UNCHANGED << relayVars, pc, up, down, result >>

\* A copy_bidirectional that returns as soon as one of the halves is finished.
RelayReturnEither ==
    /\ pc = "relay"
    /\ output.a2b = "done" \/ output.b2a = "done"
    /\ output' = [output EXCEPT !.r = "ok"]
    /\ Return(NetwayRelayResult(OkOutcome))
    /\ UNCHANGED << relayVars, log, up, down >>

\* copy_bidirectional returns the two counts once both halves are finished,
\* and serve matches on them.
RelayReturn ==
    /\ pc = "relay"
    /\ output.a2b = "done" /\ output.b2a = "done"
    /\ output' = [output EXCEPT !.r = "ok"]
    /\ Return(NetwayRelayResult(OkOutcome))
    /\ UNCHANGED << relayVars, log, up, down >>

\* A read, a write or a shutdown of one half fails: copy_bidirectional
\* returns the error, and serve matches on its kind.
RelayError ==
    /\ pc = "relay"
    /\ \E k \in RelayErrorKinds :
          /\ output' = [output EXCEPT !.r = k]
          /\ Return(NetwayRelayResult(ErrOutcome(Io(k))))
    /\ UNCHANGED << relayVars, log, up, down >>

NextRelay ==
    \/ CopyUp
    \/ CopyDown
    \/ EofUp
    \/ EofDown
    \/ RelayReturn
    \/ RelayError

SpecRelay == InitRelay /\ [][NextRelay]_vars

\* The runtime polls copy_bidirectional until it is ready: a relay whose two
\* halves are finished returns.
SpecRelayLive == SpecRelay /\ WF_vars(RelayReturn)

(***************************************************************************)
(* The accept loops: the task start_proxy spawns (netway) and socks_join   *)
(* of proxy-server's main.  Each accepted connection is served by a task   *)
(* of its own, spawned with tokio::spawn; its JoinHandle is dropped at     *)
(* once.  output maps each connection to the state of its task and the     *)
(* bytes it has relayed.                                                   *)
(***************************************************************************)
MaxConns == 2

Conns == 1..MaxConns

NoTasks == [c \in Conns |-> [st |-> "none", n |-> 0]]

InitAccept ==
    /\ impl \in Impls
    /\ auth = NoAuth
    /\ always = "None"
    /\ rules = <<>>
    /\ default_proxy = FALSE
    /\ force_proxy = FALSE
    /\ pc = "accept"
    /\ log = <<>>
    /\ out = <<>>
    /\ creds = NoCreds
    /\ req = NoReq
    /\ conn = NoConn
    /\ up = 0
    /\ down = 0
    /\ result = NoResult
    /\ input = NoInput
    /\ output = NoTasks

acceptVars == << impl, auth, always, rules, default_proxy, force_proxy, input,
                 out, creds, req, conn, up, down, result >>

\* l.accept() returns a connection and the loop spawns the task that serves
\* it; the handle tokio::spawn returns is not kept.
Accept ==
    /\ pc = "accept"
    /\ \E c \in Conns :
          /\ output[c].st = "none"
          /\ \A b \in Conns : b < c => output[b].st # "none"
          /\ output' = [output EXCEPT ![c].st = "serve"]
    /\ log' = log \o << "spawn" >>
    /\ UNCHANGED << acceptVars, pc >>

\* l.accept() fails: the unwrap panics in the loop's task (netway), the loop
\* breaks (proxy-server).  The tasks it spawned are not touched.
AcceptError ==
    /\ pc = "accept"
    /\ pc' = IF impl = "netway" THEN "panicked" ELSE "done"
    /\ log' = log \o << "accept:err" >>
    /\ UNCHANGED << acceptVars, output >>

\* The accept-loop task is cancelled through the JoinHandle of its spawn: its
\* future is dropped, and with it the listener and what the loop had cloned.
\* The loop holds no handle of the tasks it spawned.
AcceptCancel ==
    /\ pc = "accept"
    /\ pc' = "cancelled"
    /\ log' = log \o << "cancel" >>
    /\ UNCHANGED << acceptVars, output >>

\* A connection task relays a byte; it runs whatever became of the loop.
TaskRelay ==
    /\ \E c \in Conns :
          /\ output[c].st = "serve"
          /\ output[c].n < MaxRelay
          /\ output' = [output EXCEPT ![c].n = @ + 1]
    /\ log' = log \o << "relay:up" >>
    /\ UNCHANGED << acceptVars, pc >>

\* A connection task comes to the end of serve or call.
TaskEnd ==
    /\ \E c \in Conns :
          /\ output[c].st = "serve"
          /\ output' = [output EXCEPT ![c].st = "done"]
    /\ log' = log \o << "task:end" >>
    /\ UNCHANGED << acceptVars, pc >>

NextAccept ==
    \/ Accept
    \/ AcceptError
    \/ AcceptCancel
    \/ TaskRelay
    \/ TaskEnd

SpecAccept == InitAccept /\ [][NextAccept]_vars

(***************************************************************************)
(* MethodRequest and MethodReply on the wire (netway).  input is the       *)
(* request and the reply to write, output the bytes written and what       *)
(* MethodRequest::from_socket makes of them.                               *)
(***************************************************************************)
GSSAPI == 1
IANA_ASSIGNED_MIN == 3

\* enum Method: the variant and, for IanaAssigned, its payload.
Method(v, n) == [v |-> v, n |-> n]

Method_id(m) ==
    CASE m.v = "NoAuthenticationRequired" -> NO_AUTHENTICATION_REQUIRED
      [] m.v = "Gssapi" -> GSSAPI
      [] m.v = "UsernameAndPassword" -> USERNAME_AND_PASSWORD
      [] m.v = "IanaAssigned" -> m.n
      [] m.v = "NoAcceptableMethods" -> NO_ACCEPTABLE_METHODS

\* TryFrom<u8> for Method: the method, or the variant "-" for UnknownMethod.
Method_try_from(b) ==
    CASE b = NO_AUTHENTICATION_REQUIRED -> Method("NoAuthenticationRequired", 0)
      [] b = GSSAPI -> Method("Gssapi", 0)
      [] b = USERNAME_AND_PASSWORD -> Method("UsernameAndPassword", 0)
      [] b = NO_ACCEPTABLE_METHODS -> Method("NoAcceptableMethods", 0)
      [] b >= IANA_ASSIGNED_MIN /\ b <= IANA_ASSIGNED_MAX -> Method("IanaAssigned", b)
      [] OTHER -> Method("-", 0)

\* A Vec written without its length octet.
Vec_to_socket_bare(ms) == [k \in 1..Len(ms) |-> Method_id(ms[k])]

\* ToSocket for Vec<T>: the length as u8, then the elements.
Vec_to_socket(ms) == << Len(ms) % (U8Max + 1) >> \o [k \in 1..Len(ms) |-> Method_id(ms[k])]

\* ToSocket for MethodRequest and for MethodReply.
MethodRequest_to_socket(ms) == << SOCKS_VERSION >> \o Vec_to_socket(ms)
MethodReply_to_socket(m) == << SOCKS_VERSION, Method_id(m) >>

\* FromSocket for Vec<T> after the version octet: the elements, or the first
\* error met.
Vec_from_socket(bs) ==
    IF Len(bs) < 1 THEN [ok |-> FALSE, err |-> Io("UnexpectedEof"), methods |-> <<>>]
    ELSE LET size == bs[1]
             avail == IF size < Len(bs) - 1 THEN size ELSE Len(bs) - 1
             ms == [k \in 1..avail |-> Method_try_from(bs[1 + k])]
             bad == {k \in 1..Len(ms) : ms[k].v = "-"}
         IN  IF bad # {} THEN [ok |-> FALSE, err |-> E("UnknownMethod"), methods |-> <<>>]
             ELSE IF Len(bs) - 1 < size
             THEN [ok |-> FALSE, err |-> Io("UnexpectedEof"), methods |-> <<>>]
             ELSE [ok |-> TRUE, err |-> NoErr, methods |-> ms]

\* FromSocket for MethodRequest: SocksVersion, then the Vec.
MethodRequest_from_socket(bs) ==
    IF Len(bs) < 1 THEN [ok |-> FALSE, err |-> Io("UnexpectedEof"), methods |-> <<>>]
    ELSE IF bs[1] # SOCKS_VERSION
    THEN [ok |-> FALSE, err |-> E("InvalidReplyVersion"), methods |-> <<>>]
    ELSE Vec_from_socket(Tail(bs))

MethodValues ==
    {Method(v, 0) : v \in {"NoAuthenticationRequired", "Gssapi", "UsernameAndPassword",
                           "NoAcceptableMethods"}}
    \cup {Method("IanaAssigned", n) : n \in {0, IANA_ASSIGNED_MIN, IANA_ASSIGNED_MAX, 128}}

MethodVecs == UNION {[1..n -> MethodValues] : n \in 0..MaxMethods}

NoWire == [bytes |-> <<>>, reply |-> <<>>, read |-> [ok |-> FALSE, err |-> NoErr, methods |-> <<>>]]

InitMethods ==
    /\ impl = "netway"
    /\ auth = NoAuth
    /\ always = "None"
    /\ rules = <<>>
    /\ default_proxy = FALSE
    /\ force_proxy = FALSE
    /\ pc = "m:write"
    /\ log = <<>>
    /\ out = <<>>
    /\ creds = NoCreds
    /\ req = NoReq
    /\ conn = NoConn
    /\ up = 0
    /\ down = 0
    /\ result = NoResult
    /\ input \in [methods : MethodVecs, reply : {Method("NoAcceptableMethods", 0), Method("IanaAssigned", 128)}]
    /\ output = NoWire

methodVars == << impl, auth, always, rules, default_proxy, force_proxy, input,
                 log, out, creds, req, conn, up, down, result >>

MethodsToSocket ==
    /\ pc = "m:write"
    /\ output' = [output EXCEPT !.bytes = MethodRequest_to_socket(input.methods),
                                !.reply = MethodReply_to_socket(input.reply)]
    /\ pc' = "m:read"
    /\ UNCHANGED methodVars

MethodsFromSocket ==
    /\ pc = "m:read"
    /\ output' = [output EXCEPT !.read = MethodRequest_from_socket(output.bytes)]
    /\ pc' = "done"
    /\ UNCHANGED methodVars

NextMethods ==
    \/ MethodsToSocket
    \/ MethodsFromSocket

SpecMethods == InitMethods /\ [][NextMethods]_vars

(***************************************************************************)
(* write_fixed and read_to_fixed_bytes of proxy-io, poll by poll.  input   *)
(* is the bytes to write, the bytes that follow them on the stream, and    *)
(* where the stream ends; output is the state of the two futures: what is  *)
(* on the wire, what is left to write, what the reader has not yet been    *)
(* given, the destination vector, and the fields read and len.             *)
(***************************************************************************)
MaxFixed == 2

FixedBytes ==
    UNION {[1..n -> {0, 7}] : n \in 0..MaxFixed} \cup {[k \in 1..U8Max |-> k % 7]}

\* cut is the number of octets the stream delivers before it ends; -1 if it
\* delivers everything.
FixedCuts(b) == {0 - 1, 0, 1, Len(b)}

FixedInputs ==
    UNION {[b : {b}, tail : {<<>>, << 9 >>}, cut : FixedCuts(b)] : b \in FixedBytes}

NoLen == 0 - 1

FixedStart(b) ==
    [wire |-> <<>>, rest |-> b, len_writed |-> FALSE, stream |-> <<>>, buf |-> <<>>,
     read |-> 0, len |-> NoLen, ok |-> FALSE, err |-> "-"]

InitFixed ==
    /\ impl = "socks"
    /\ auth = NoAuth
    /\ always = "None"
    /\ rules = <<>>
    /\ default_proxy = FALSE
    /\ force_proxy = FALSE
    /\ pc = "f:write"
    /\ log = <<>>
    /\ out = <<>>
    /\ creds = NoCreds
    /\ req = NoReq
    /\ conn = NoConn
    /\ up = 0
    /\ down = 0
    /\ result = NoResult
    /\ input \in FixedInputs
    /\ output = FixedStart(input.b)

fixedVars == << impl, auth, always, rules, default_proxy, force_proxy, input,
                log, out, creds, req, conn, up, down, result >>

\* What the reader will be given of what was written and what follows it.
Delivered(wire) ==
    LET all == wire \o input.tail
    IN  IF input.cut < 0 THEN all ELSE SubSeq(all, 1, input.cut)

\* WriteFixed::poll returns Ready(Ok(())): the reader starts on the stream.
FixedWritten(o) == IF o.rest = <<>> THEN [o EXCEPT !.stream = Delivered(o.wire)] ELSE o

\* WriteFixed::poll, the length octet: poll_write of [buf.len() as u8].
WriteFixedLen ==
    /\ pc = "f:write"
    /\ ~output.len_writed
    /\ \E n \in {0, 1} :
          IF n = 0
          THEN /\ output' = [output EXCEPT !.err = "WriteZero"]
               /\ pc' = "done"
          ELSE /\ output' = FixedWritten([output EXCEPT !.wire = << as_u8(Len(input.b)) >>,
                                                        !.len_writed = TRUE])
               /\ pc' = IF output.rest = <<>> THEN "f:read" ELSE "f:write"
    /\ UNCHANGED fixedVars

\* WriteFixed::poll, the loop: poll_write of what is left takes n octets of it.
WriteFixedBody ==
    /\ pc = "f:write"
    /\ output.len_writed
    /\ \E n \in 0..Len(output.rest) :
          IF n = 0
          THEN /\ output' = [output EXCEPT !.err = "WriteZero"]
               /\ pc' = "done"
          ELSE /\ output' = FixedWritten(
                     [output EXCEPT !.wire = @ \o SubSeq(output.rest, 1, n),
                                    !.rest = SubSeq(output.rest, n + 1, Len(output.rest))])
               /\ pc' = IF n = Len(output.rest) THEN "f:read" ELSE "f:write"
    /\ UNCHANGED fixedVars

\* The top of the loop of poll_read_to_fixed_bytes: all octets are read.
FixedReturn(o) == IF o.len + 1 = o.read THEN [o EXCEPT !.ok = TRUE] ELSE o

\* poll_read_to_fixed_bytes with len None: one octet is read into the array.
ReadFixedLen ==
    /\ pc = "f:read"
    /\ output.len = NoLen
    /\ IF output.stream = <<>>
       THEN /\ output' = [output EXCEPT !.err = "UnexpectedEof"]
            /\ pc' = "done"
       ELSE /\ output' = FixedReturn([output EXCEPT !.len = output.stream[1], !.read = 1,
                                                    !.stream = Tail(output.stream)])
            /\ pc' = IF output.stream[1] = 0 THEN "done" ELSE "f:read"
    /\ UNCHANGED fixedVars

\* A reader that asks for whatever the stream has.
ReadFixedBytesGreedy ==
    /\ pc = "f:read"
    /\ output.len # NoLen
    /\ IF output.stream = <<>>
       THEN /\ output' = [output EXCEPT !.err = "UnexpectedEof"]
            /\ pc' = "done"
       ELSE \E num \in 1..Len(output.stream) :
               /\ output' = FixedReturn([output EXCEPT !.buf = @ \o SubSeq(output.stream, 1, num),
                                                       !.read = @ + num,
                                                       !.stream = SubSeq(output.stream, num + 1,
                                                                         Len(output.stream))])
               /\ pc' = IF output.len + 1 <= output.read + num THEN "done" ELSE "f:read"
    /\ UNCHANGED fixedVars

\* poll_read_to_fixed_bytes with len Some(n): poll_read_num_bytes of
\* n + 1 - read fills num octets of the exact read buffer, 0 at the end of
\* the stream.
ReadFixedBytes ==
    /\ pc = "f:read"
    /\ output.len # NoLen
    /\ IF output.stream = <<>>
       THEN /\ output' = [output EXCEPT !.err = "UnexpectedEof"]
            /\ pc' = "done"
       ELSE LET want == output.len + 1 - output.read
                most == IF want < Len(output.stream) THEN want ELSE Len(output.stream)
            IN  \E num \in 1..most :
                   /\ output' = FixedReturn(
                         [output EXCEPT !.buf = @ \o SubSeq(output.stream, 1, num),
                                        !.read = @ + num,
                                        !.stream = SubSeq(output.stream, num + 1,
                                                          Len(output.stream))])
                   /\ pc' = IF output.len + 1 = output.read + num THEN "done" ELSE "f:read"
    /\ UNCHANGED fixedVars

NextFixed ==
    \/ WriteFixedLen
    \/ WriteFixedBody
    \/ ReadFixedLen
    \/ ReadFixedBytes

SpecFixed == InitFixed /\ [][NextFixed]_vars

(***************************************************************************)
(* The proxy-socks client (proxy_socks) negotiating with the proxy-socks   *)
(* server (prepare, prepare_with, handle) over one connection.  auth is    *)
(* the authenticator of the server, and its kind is the kind of both ends; *)
(* input holds the username and password the client is configured with;    *)
(* pc, log, out and result are the server's, output holds the client's.    *)
(* What one end writes is what the other end reads.                        *)
(***************************************************************************)
ClientStart == [pc |-> "d:greet", log |-> <<>>, out |-> <<>>, res |-> NoResult]

InitInterop ==
    /\ impl = "socks"
    /\ auth \in {NoAuth} \cup {Basic(u, p) : u \in Users, p \in Passwords}
    /\ always = "None"
    /\ rules = <<>>
    /\ default_proxy = FALSE
    /\ force_proxy = FALSE
    /\ pc = "greet"
    /\ log = <<>>
    /\ out = <<>>
    /\ creds = NoCreds
    /\ req = NoReq
    /\ conn = NoConn
    /\ up = 0
    /\ down = 0
    /\ result = NoResult
    /\ input \in [u : Users, p : Passwords]
    /\ output = ClientStart

interopVars == << impl, auth, always, rules, default_proxy, force_proxy, input, conn, up, down >>

\* The client after the step with effect eff.
ClientApply(eff) ==
    output' = [pc |-> eff.pc, log |-> output.log \o eff.evs,
               out |-> output.out \o eff.bytes, res |-> eff.res]

\* The octet that follows the version of the last message the server wrote;
\* Eof when the server wrote nothing and shut the connection down.
Answer(eff) == IF eff.bytes = <<>> THEN Eof ELSE eff.bytes[2]

\* CandidateMethods::write of the client, CandidateMethods::read and the
\* Selection of the server, Selection::read of the client.
InteropGreet ==
    /\ pc = "greet"
    /\ output.pc = "d:greet"
    /\ \E wok \in BOOLEAN :
          LET sent == SocksClientGreetEff(NO_AUTHENTICATION_REQUIRED, TRUE).bytes
              g == [ver |-> sent[1], methods |-> SubSeq(sent, 3, 2 + sent[2])]
              srv == SocksPrepareEff(g, wok)
          IN  /\ Apply(srv)
              /\ ClientApply(SocksClientGreetEff(Answer(srv), TRUE))
    /\ UNCHANGED << interopVars, creds, req >>

\* UsernameAndPassword::new(u, p).write of the client, UsernameAndPassword::read,
\* is_valid, authenticate and the Status of the server, Status::read of the
\* client.
InteropAuth ==
    /\ pc = "auth"
    /\ output.pc = "d:auth"
    /\ \E wok \in BOOLEAN :
          LET sent == SocksClientAuthEff(AUTH_SUCCEED, TRUE).bytes
              a == [ver |-> sent[1], u |-> input.u, p |-> input.p]
              srv == SocksAuthEff(a, wok)
          IN  /\ creds' = a
              /\ Apply(srv)
              /\ ClientApply(SocksClientAuthEff(Answer(srv), TRUE))
    /\ UNCHANGED << interopVars, req >>

\* Request::write of the client and Request::read of the server; the server
\* goes on to dial.
InteropRequest ==
    /\ pc = "request"
    /\ output.pc = "d:request"
    /\ \E wok \in BOOLEAN :
          LET r == [ver |-> RequestBytes[1], cmd |-> RequestBytes[2], rsv |-> RequestBytes[3],
                    atyp |-> 0, dst |-> DialTarget]
          IN  /\ req' = r
              /\ Apply(SocksHandleEff(r, wok))
              /\ ClientApply(Eff(<< "w:request" >>, RequestBytes, "d:reply", NoResult))
    /\ UNCHANGED << interopVars, creds >>

\* Reply::read of the client on what the server's step srv wrote, and the
\* match on reply.rep() of proxy_socks.
ClientReadsReply(srv) ==
    ClientApply(Eff(<< "r:reply" >>, <<>>, "done",
                    SocksClientRequestEff(Answer(srv), TRUE).res))

\* self.connect.call(target) of the server; the client reads the Reply of a
\* failed connect.
InteropDial ==
    /\ pc = "dial"
    /\ output.pc = "d:reply"
    /\ \E o \in DialOutcomes("socks"), wok \in BOOLEAN :
          LET c == ProxyConnect_call(rules, force_proxy, default_proxy, req.dst, o)
              srv == SocksConnectEff(c, wok)
          IN  /\ conn' = c
              /\ Apply(srv)
              /\ IF c.ok THEN output' = output ELSE ClientReadsReply(srv)
    /\ UNCHANGED << impl, auth, always, rules, default_proxy, force_proxy, input, up, down, creds, req >>

\* Reply::new(Rep::Succeeded).write of the server, Reply::read of the client.
InteropReply ==
    /\ pc = "reply"
    /\ output.pc = "d:reply"
    /\ \E wok \in BOOLEAN :
          LET srv == SocksReplyEff(wok)
          IN  Apply(srv) /\ ClientReadsReply(srv)
    /\ UNCHANGED << interopVars, creds, req >>

NextInterop == InteropGreet \/ InteropAuth \/ InteropRequest \/ InteropDial \/ InteropReply

SpecInterop == InitInterop /\ [][NextInterop]_vars

(***************************************************************************)
(* The two ingresses of netway in front of one policy dialer: a CONNECT    *)
(* request whose host is the text of input.ip and input.port on the HTTP   *)
(* ingress, and a DstRequest with ATYP = IPv4 for the same address and     *)
(* port on the SOCKS5 ingress.  log tells which ingresses have served;     *)
(* output holds the destination each handed to the dialer and what the     *)
(* dialer did with it.                                                     *)
(***************************************************************************)
DenyIp10 == [pat |-> IpExactPat(Ip10), decision |-> Deny, args |-> NoArgs]
DenyNet10 == [pat |-> CidrPat(<<10, 0, 0, 0>>, 8), decision |-> Deny, args |-> NoArgs]
DenyKey10 == [pat |-> DomainPat("DomainKeyword", <<"1", "0", ".">>), decision |-> Deny,
              args |-> NoArgs]

IngressRuleLists == {<<>>, << DenyIp10 >>, << DenyNet10 >>, << DenyKey10 >>,
                     << DirectIp10, DenyNet10 >>}

IngressIps == {Ip10, <<10, 0, 0, 2>>, <<11, 0, 0, 1>>}
IngressPorts == {80, 443}

NotServed == [dst |-> DstAddrDefault, conn |-> NoConn]
NoIngress == [http |-> NotServed, socks5 |-> NotServed]

InitIngress ==
    /\ impl = "netway"
    /\ auth = NoAuth
    /\ always = "None"
    /\ rules \in IngressRuleLists
    /\ default_proxy \in BOOLEAN
    /\ force_proxy = FALSE
    /\ pc = "ingress"
    /\ log = <<>>
    /\ out = <<>>
    /\ creds = NoCreds
    /\ req = NoReq
    /\ conn = NoConn
    /\ up = 0
    /\ down = 0
    /\ result = NoResult
    /\ input \in [ip : IngressIps, port : IngressPorts]
    /\ output = NoIngress

ingressVars == << impl, auth, always, rules, default_proxy, force_proxy, pc, out, creds,
                  up, down, result, input >>

\* str::rfind(':'): the last position of ':', 0 for None.
rfind_colon(h) ==
    IF Positions(h, ":") = {} THEN 0
    ELSE CHOOSE k \in Positions(h, ":") : \A j \in Positions(h, ":") : j <= k

\* str::parse::<u16>().unwrap_or_default()
parse_u16_or_default(t) == IF IsDecField(t, 5, 65535, TRUE) THEN NumVal(t) ELSE 0

\* The dst of ProxyServer::serve: the host of the request split at its last
\* ':', as a DstAddr::Domain in either arm.
host_to_dst(h) ==
    LET size == rfind_colon(h)
    IN  IF size # 0
        THEN DomainDst(SubSeq(h, 1, size - 1), parse_u16_or_default(SubSeq(h, size + 1, Len(h))))
        ELSE DomainDst(h, 0)

\* The host of the CONNECT request line.
ConnectHost == Ipv4ToString(input.ip) \o << ":" >> \o Dec(input.port)

\* ProxyServer::serve on the CONNECT request: the dst, then try_connect.
HttpIngress ==
    /\ \A k \in 1..Len(log) : log[k] # "http"
    /\ \E o \in {OkOutcome, ErrOutcome(Io("ConnectionRefused"))} :
          LET dst == host_to_dst(ConnectHost)
              c == Dialer_try_connect(always, rules, default_proxy, dst, o)
          IN  /\ output' = [output EXCEPT !.http = [dst |-> dst, conn |-> c]]
              /\ conn' = c
              /\ req' = [req EXCEPT !.dst = dst]
    /\ log' = log \o << "http" >>
    /\ UNCHANGED ingressVars

\* Proxy::serve on the DstRequest: DstAddr::from_socket, then try_connect.
Socks5Ingress ==
    /\ \A k \in 1..Len(log) : log[k] # "socks5"
    /\ \E o \in {OkOutcome, ErrOutcome(Io("ConnectionRefused"))} :
          LET dst == addr_from_socket("netway", addr_to_socket(SocketDst(input.ip, input.port))).d
              c == Dialer_try_connect(always, rules, default_proxy, dst, o)
          IN  /\ output' = [output EXCEPT !.socks5 = [dst |-> dst, conn |-> c]]
              /\ conn' = c
              /\ req' = [req EXCEPT !.dst = dst]
    /\ log' = log \o << "socks5" >>
    /\ UNCHANGED ingressVars

NextIngress == HttpIngress \/ Socks5Ingress

SpecIngress == InitIngress /\ [][NextIngress]_vars

(***************************************************************************)
(* Properties of the policy and of the policy dialer.                      *)
(***************************************************************************)
Min(S) == CHOOSE k \in S : \A j \in S : k <= j

\* The rules whose pattern matches the destination of the request.
MatchingRules == {k \in 1..Len(rules) : Matches(impl, rules[k], req.dst)}

\* The rules that yield a decision other than Default for the destination.
DecidingRules == {k \in MatchingRules : ~is_default(rules[k].decision)}

\* C4: when the decision for the destination is Deny, connect returns an error
\* and has invoked neither the direct dialer nor the proxy dialer.
C4_DenyDialsNothing ==
    (pc = "connected" /\ conn.decision.d = "Deny") => (~conn.ok /\ conn.dialed = <<>>)

C4_Witness ==
    /\ pc = "connected"
    /\ conn.decision.d = "Deny"
    /\ conn.err # NoErr
    /\ DecidingRules # {}

\* C8 (as stated): enforce returns the decision of the first rule whose pattern
\* matches the destination, and Default if no pattern matches.
C8_FirstMatchingRule ==
    pc = "enforced" =>
        conn.decision = IF MatchingRules = {} THEN Default
                        ELSE rules[Min(MatchingRules)].decision

\* C8: enforce returns the decision of the first rule in list order whose
\* pattern matches the destination and whose decision is not Default, and
\* Default if there is no such rule.
C8_FirstDecidingRule ==
    pc = "enforced" =>
        conn.decision = IF DecidingRules = {} THEN Default
                        ELSE rules[Min(DecidingRules)].decision

\* A matching rule that decides Default stands before the rule that decides.
C8_Witness ==
    /\ pc = "enforced"
    /\ DecidingRules # {}
    /\ Min(MatchingRules) < Min(DecidingRules)
    /\ conn.decision = rules[Min(DecidingRules)].decision

\* The args a rule hands to the caller: proxy-rules' enforce returns a Decision
\* alone.
ArgsOf(rule) == IF impl = "netway" THEN rule.args ELSE NoArgs

\* C9: enforce returns the (decision, args) of the first rule, in declaration
\* order, that yields a non-Default decision, (Default, no args) if no rule
\* yields one, and the rules after that first rule do not change the result.
C9_FirstNonDefault ==
    pc = "enforced" =>
        IF DecidingRules = {}
        THEN conn.decision = Default /\ conn.args = NoArgs
        ELSE LET k == Min(DecidingRules)
             IN /\ conn.decision = rules[k].decision
                /\ conn.args = ArgsOf(rules[k])
                /\ \A n \in k..Len(rules) :
                      LET v == VecEnforce(impl, SubSeq(rules, 1, n), req.dst)
                      IN v.decision = conn.decision /\ v.args = conn.args

\* A deciding rule is followed by another deciding rule with another decision.
C9_Witness ==
    /\ pc = "enforced"
    /\ DecidingRules # {}
    /\ \E j \in DecidingRules :
          /\ j > Min(DecidingRules)
          /\ rules[j].decision # rules[Min(DecidingRules)].decision
    /\ conn.decision = rules[Min(DecidingRules)].decision

\* C11: with force_proxy set, connect decides Proxy{remote_dns: true} whatever
\* the rule list holds for the destination: the proxy dialer is invoked and the
\* direct dialer is not.
C11_ForceProxy ==
    (pc = "connected" /\ force_proxy) =>
        /\ conn.decision = Proxy(TRUE)
        /\ conn.dialed = << "proxy" >>

\* The rule list denies the destination, and another rule sends it direct.
C11_Witness ==
    /\ pc = "connected"
    /\ force_proxy
    /\ \E k \in MatchingRules : rules[k].decision = Deny
    /\ \E k \in MatchingRules : rules[k].decision = Direct
    /\ conn.dialed = << "proxy" >>

\* C10: when the decision is Default, connect invokes the proxy dialer alone if
\* the default-proxy flag is true and the direct dialer alone if it is false.
C10_DefaultFollowsFlag ==
    (pc = "connected" /\ conn.decision.d = "Default") =>
        conn.dialed = << IF default_proxy THEN "proxy" ELSE "direct" >>

(***************************************************************************)
(* Properties of a SOCKS5 server connection.                               *)
(***************************************************************************)
At(ev) == {k \in 1..Len(log) : log[k] = ev}
Seen(ev) == At(ev) # {}

\* Every ev2 in the log has an ev1 before it.
Before(ev1, ev2) == \A j \in At(ev2) : \E k \in At(ev1) : k < j

\* The bytes of the last message the server wrote, n octets long.
LastBytes(n) == SubSeq(out, Len(out) - n + 1, Len(out))

\* The REP octet of the DstReply the server wrote.
RepByte == LastBytes(10)[2]

\* C1: the server writes the method reply, then the auth reply (only when
\* Basic is configured), then the DstReply, each once and each only after the
\* greeting, the auth request, the DstRequest has been read in full; no payload
\* is relayed in either direction before the DstReply is written.
C1_WriteOrder ==
    /\ \A ev \in {"w:method", "w:auth", "w:reply"} : Cardinality(At(ev)) <= 1
    /\ Before("r:greeting", "w:method")
    /\ Before("r:auth", "w:auth")
    /\ Before("r:request", "w:reply")
    /\ Before("w:method", "w:auth")
    /\ Before("w:method", "w:reply")
    /\ Seen("w:auth") => auth.t = "Basic"
    /\ (auth.t = "Basic" /\ Seen("w:reply")) => Before("w:auth", "w:reply")
    /\ Before("w:reply", "relay:up")
    /\ Before("w:reply", "relay:down")
    /\ (Seen("relay:up") \/ Seen("relay:down")) => RepByte = 0
    /\ Len(out) = 2 * Cardinality(At("w:method")) + 2 * Cardinality(At("w:auth"))
                  + 10 * Cardinality(At("w:reply"))

C1_Witness ==
    /\ pc = "done"
    /\ result.st = "ok"
    /\ auth.t = "Basic"
    /\ up = MaxRelay
    /\ down = MaxRelay
    /\ Len(out) = 14

\* The client's auth request was read and carries a username or a password
\* other than the configured one.
WrongCredentials ==
    /\ auth.t = "Basic"
    /\ Seen("r:auth")
    /\ creds.ver = AUTH_VERSION
    /\ (creds.u # auth.u \/ creds.p # auth.p)

\* The authentication failure of the stack: Error::PasswordAuthFailure in
\* netway, Kind::Unauthorized in proxy-socks.
IsAuthFailure(e) ==
    IF impl = "netway" THEN e.t = "PasswordAuthFailure" ELSE e = io_err("Unauthorized")

\* C2: with Basic configured and a wrong username or password, the auth reply
\* the server writes is 01 01, serve returns the authentication failure, no
\* DstRequest is read and the dialer is never invoked.
C2_WrongCredentialsRejected ==
    WrongCredentials =>
        /\ pc = "done"
        /\ ~Seen("r:request")
        /\ conn = NoConn
        /\ ~Seen("dial:direct") /\ ~Seen("dial:proxy")
        /\ Seen("w:auth") => (LastBytes(2) = << 1, 1 >> /\ IsAuthFailure(result.err))
        /\ ~Seen("w:auth") => result.err.k = "BrokenPipe"

C2_Witness ==
    /\ WrongCredentials
    /\ creds.u = auth.u
    /\ out = << 5, 2, 1, 1 >>
    /\ IsAuthFailure(result.err)

\* C3: the auth reply the server writes is 01 00 exactly when the presented
\* credentials equal the configured ones.
C3_SuccessIsZero ==
    (auth.t = "Basic" /\ Seen("w:auth") /\ ~Seen("w:reply")) =>
        (LastBytes(2) = << 1, 0 >> <=> (creds.u = auth.u /\ creds.p = auth.p))

\* C5: a destination that a rule denies makes the policy dialer fail with
\* HostUnreachable, and the DstReply the server sends has REP 0x04.
C5_DenyIsHostUnreachable ==
    (conn.decision.d = "Deny" /\ Seen("w:reply")) =>
        /\ (conn.err.t = "HostUnreachable" \/ conn.err.k = "HostUnreachable")
        /\ RepByte = 4

\* C6: a DstRequest with CMD = BIND or UDP ASSOCIATE is answered with exactly
\* 05 07 00 01 00 00 00 00 00 00, serve returns CommandNotSupported, and the
\* dialer is never invoked.
C6_UnsupportedCommandReply ==
    (Seen("r:request") /\ req.ver = SOCKS_VERSION /\ req.atyp = 0
        /\ req.cmd \in {BIND, UDP_ASSOCIATE}) =>
        /\ conn = NoConn
        /\ Seen("w:reply") =>
              /\ LastBytes(10) = << 5, 7, 0, 1, 0, 0, 0, 0, 0, 0 >>
              /\ (result.err.t = "CommandNotSupported" \/ result.err.c = "CommandNotSupported")

\* What the dialer's error is called: the variant, or for an io error its kind
\* (proxy-socks: the socks Kind the io error wraps).
ErrorName(e) ==
    IF e.t = "Io" THEN e.k
    ELSE IF e.t = "IoError" THEN (IF e.k = "Other" THEN e.c ELSE e.k)
    ELSE e.t

\* The REP octet the error of a failed dial is to be answered with.
RepOfName(n) ==
    CASE n = "ConnectionRefused" -> 5
      [] n = "NetworkUnreachable" -> 3
      [] n = "HostUnreachable" -> 4
      [] n = "CommandNotSupported" -> 7
      [] n = "TtlExpired" -> 6
      [] n = "InvalidDstAddress" -> 8
      [] OTHER -> 1

\* C7: when the dialer fails, the REP octet of the DstReply is 0x05, 0x03,
\* 0x04, 0x07, 0x06, 0x08 for ConnectionRefused, NetworkUnreachable,
\* HostUnreachable, CommandNotSupported, TtlExpired, InvalidDstAddress, and
\* 0x01 for every other error.
C7_RepOfDialError ==
    (conn.dialed # <<>> /\ ~conn.ok /\ Seen("w:reply")) =>
        RepByte = RepOfName(ErrorName(conn.err))

(***************************************************************************)
(* Properties of is_match.                                                 *)
(***************************************************************************)
\* How many of the top n bits of an address lie in its octet k.
BitsIn(k, n) == IF n <= 8 * (k - 1) THEN 0
                ELSE IF n >= 8 * k THEN 8 ELSE n - 8 * (k - 1)

\* The top n bits of a 32-bit address, octet by octet.
TopBits(ip, n) == [k \in 1..4 |-> ip[k] \div (2 ^ (8 - BitsIn(k, n)))]

\* C12: an IPv4 CIDR rule net/prefix with 0 <= prefix <= 32 matches an IPv4
\* socket destination iff the top prefix bits of the two addresses are equal.
C12_CidrMatchesTopBits ==
    (pc = "matched" /\ input.pat.tag = "IpCIDR" /\ input.pat.mask <= 32
        /\ input.dst.t = "Socket") =>
        /\ ~output.panic
        /\ output.v = (TopBits(input.dst.ip, input.pat.mask)
                       = TopBits(input.pat.ip, input.pat.mask))

IpTags == {"IpExact", "IpCIDR"}
DomainTags == {"DomainExact", "DomainSuffix", "DomainKeyword"}

\* C13: IpExact and IpCidr rules never match a domain-form destination, and
\* DomainExact, DomainSuffix and DomainKeyword rules never match an IP-socket
\* destination.
C13_FormsNeverCross ==
    pc = "matched" =>
        /\ (input.pat.tag \in IpTags /\ input.dst.t = "Domain") => ~output.v
        /\ (input.pat.tag \in DomainTags /\ input.dst.t = "Socket") => ~output.v

\* C14: a DomainSuffix rule matches a domain-form destination host:port iff
\* host ends with the pattern, whatever the port is.
C14_SuffixOfHost ==
    (pc = "matched" /\ input.pat.tag = "DomainSuffix" /\ input.dst.t = "Domain") =>
        (output.v <=> EndsWith(input.dst.host, input.pat.s))

\* C15: a DomainExact rule matches a destination iff the destination is
\* domain-form and its host is equal to the pattern.
C15_ExactIsEquality ==
    (pc = "matched" /\ input.pat.tag = "DomainExact") =>
        (output.v <=> (input.dst.t = "Domain" /\ input.dst.host = input.pat.s))

\* C16: for every rule r parsed from a valid rule string, parse(to_string(r))
\* succeeds and yields a rule equal to r in pattern, decision and remote_dns.
C16_RuleRoundTrip ==
    pc = "reparsed" =>
        /\ output.again.ok
        /\ output.again.pattern = output.first.pattern
        /\ output.again.decision = output.first.decision

(***************************************************************************)
(* Properties of the address on the wire.                                  *)
(***************************************************************************)
\* What is left of the stream after the read.
RestOfWire == SubSeq(output.wire, output.read.used + 1, Len(output.wire))

WrittenAndReadBack ==
    /\ output.read.ok
    /\ output.read.d = input.d
    /\ output.read.used = output.written
    /\ RestOfWire = input.tail

ValidDomain == input.d.t = "Domain" /\ Len(input.d.host) >= 1 /\ Len(input.d.host) <= U8Max

\* C17 as stated: every destination (IPv4 socket, IPv6 socket, domain of 1..255
\* bytes, any port) written as a SOCKS5 address and read back is the same
\* destination, and the read consumes exactly the bytes written.
C17_AnyDestinationRoundTrip ==
    (pc = "read" /\ (input.d.t \in {"Socket", "Socket6"} \/ ValidDomain)) => WrittenAndReadBack

\* C17: an IPv4 socket, an IPv6 socket whose flowinfo and scope_id are 0, or a
\* domain of 1..255 bytes, with any port, written as a SOCKS5 address and read
\* back is the same destination, and the read consumes exactly the bytes written.
C17_RoundTrip ==
    (pc = "read" /\ (\/ input.d.t = "Socket"
                     \/ (input.d.t = "Socket6" /\ input.d.flowinfo = 0 /\ input.d.scope_id = 0)
                     \/ ValidDomain))
        => WrittenAndReadBack

C17_Witness ==
    /\ pc = "read"
    /\ ValidDomain
    /\ Len(input.d.host) = U8Max
    /\ input.d.port = 65535
    /\ input.tail /= << >>
    /\ output.read.d = input.d
    /\ output.written = U8Max + 4

\* C19: a domain address of length 0 or of more than 255 bytes fails with
\* InvalidData: a read of ATYP 0x03 with length octet 0 gives no destination,
\* and a domain of more than 255 bytes puts nothing on the wire.
C19_DomainLengthChecked ==
    /\ (pc = "read" /\ Len(output.wire) >= 2 /\ output.wire[1] = DST_DOMAIN /\ output.wire[2] = 0)
           => (~output.read.ok /\ output.read.err = "InvalidData")
    /\ (pc \in {"wire", "read"} /\ input.d.t = "Domain" /\ Len(input.d.host) > U8Max)
           => output.written = 0

(***************************************************************************)
(* Properties of the greeting.                                             *)
(***************************************************************************)
\* The server has read a greeting that offers no method.
EmptyGreeting == pc # "greet" /\ input # NoInput /\ input.methods = << >>

\* C18: a greeting with NMETHODS = 0 is never accepted, with NoAuth and with
\* Basic configured: the server rejects it or replies NoAcceptableMethods,
\* returns an error, reads no DstRequest and never invokes the dialer.
C18_EmptyGreetingRejected ==
    EmptyGreeting =>
        /\ pc = "done"
        /\ result.st = "err"
        /\ (out = << >> \/ out = << SOCKS_VERSION, NO_ACCEPTABLE_METHODS >>)
        /\ ~Seen("r:request")
        /\ conn = NoConn
        /\ ~Seen("dial:direct") /\ ~Seen("dial:proxy")

(***************************************************************************)
(* Properties of the HTTP CONNECT servers.                                 *)
(***************************************************************************)
\* The request carries Proxy-Authorization: Basic with the base64 of user:pass.
CarriesCredentials ==
    /\ input.header.present
    /\ input.header.scheme = "Basic "
    /\ base64_decode(input.header.payload).ok
    /\ base64_decode(input.header.payload).utf8
    /\ base64_decode(input.header.payload).text = UserColonPass

\* C20: with Basic configured a CONNECT request is authenticated iff its
\* Proxy-Authorization: Basic header decodes to exactly user:pass; any other
\* request is answered 407 with Proxy-Authenticate: Basic realm=Proxy Server,
\* the server fails with ProxyDenied without a panic, and the dialer is never
\* invoked.
C20_BasicAuthOrDenied ==
    (pc = "served" /\ auth.t = "Basic" /\ input.wok) =>
        /\ ~output.panic
        /\ CarriesCredentials => output.dialed
        /\ ~CarriesCredentials =>
              /\ output.status = 407
              /\ output.authenticate = ProxyAuthenticate
              /\ output.err = E("ProxyDenied")
              /\ ~output.dialed

(***************************************************************************)
(* Properties of the HTTP CONNECT servers after authentication.            *)
(***************************************************************************)
\* C21: the 200 response is written only after the dialer has returned a
\* stream; when the dialer fails the client, if still there, has received
\* HTTP/1.1 503 Service Unavailable and no 200, no relay starts, and the
\* error of the dialer is what the server returns.
C21_ReplyAfterDial ==
    /\ Seen("w:200") => (Seen("dial:ok") /\ Before("dial:ok", "w:200"))
    /\ (pc = "done" /\ Seen("dial:err")) =>
          /\ ~Seen("w:200")
          /\ ~Seen("relay:up") /\ ~Seen("relay:down")
          /\ out \in {<< >>, StatusLine("503", "Service Unavailable")}
          /\ out # << >> => result = Fail(conn.err)

(***************************************************************************)
(* Properties of the proxy dialers.                                        *)
(***************************************************************************)
Returned == pc = "done" /\ result.st # "none"

\* The HTTP proxy has answered and the dialer has the whole header block.
ResponseRead == input.proto \in {"http", "https"} /\ output.read

\* C22: the HTTP CONNECT dialer returns a stream iff the status of the
\* response is 200; on any other status, once it has the header block, it has
\* shut the proxy stream down and returned ProxyServerUnreachable.
C22_StreamIffStatus200 ==
    ResponseRead =>
        /\ Returned
        /\ (result = Stream) <=> (output.http.status = "200")
        /\ output.http.status # "200" =>
              (Seen("shutdown:proxy") /\ result = Fail(E("ProxyServerUnreachable")))

\* The ingress server opened an egress stream and has returned an error.
EgressHeldThenError == pc = "done" /\ conn.ok /\ result.st = "err"

\* C23: whenever the netway SOCKS5 server holds an opened egress stream and
\* then returns an error (the local address cannot be queried, the success
\* reply cannot be written, the relay fails), the egress stream was shut down
\* before the error was returned.
C23_ShutdownBeforeError ==
    (impl = "netway" /\ EgressHeldThenError) => Seen("shutdown:egress")

(***************************************************************************)
(* Properties of the relay.                                                *)
(***************************************************************************)
BothHalvesDone == output.a2b = "done" /\ output.b2a = "done"

\* Some ev2 in the log comes after some ev1.
SomeAfter(ev1, ev2) == \E k \in At(ev1), j \in At(ev2) : k < j

\* The relay has completed, and not with an error of one of its halves.
RelayCompleted == pc = "done" /\ output.r = "ok"

HalvesOrdered ==
    /\ RelayCompleted => BothHalvesDone
    /\ output.a2b = "done" <=> Seen("shutdown:egress")
    /\ output.b2a = "done" <=> Seen("shutdown:client")
    /\ Before("eof:client", "shutdown:egress")
    /\ Before("eof:egress", "shutdown:client")
    /\ (pc = "relay" /\ output.a2b = "done" /\ output.b2a = "copy" /\ down < MaxRelay)
          => ENABLED CopyDown
    /\ (pc = "relay" /\ output.b2a = "done" /\ output.a2b = "copy" /\ up < MaxRelay)
          => ENABLED CopyUp

\* C24: the relay completes only after both half-duplex copies are finished;
\* a half that reads the end of its stream shuts the writer of the opposite
\* stream down while the other half can go on copying; and once both halves
\* have read the end of their streams the relay eventually returns.
C24_BothHalvesThenReturn ==
    /\ []HalvesOrdered
    /\ BothHalvesDone ~> (pc = "done")

\* A relay that completed after the egress stream went on sending to a client
\* that had already closed its side.
C24_Witness == RelayCompleted /\ SomeAfter("shutdown:egress", "relay:down")

\* C25: when the relay of serve ends without an error, the pair it returns is
\* the number of bytes written to the egress stream and the number of bytes
\* written back to the client.
C25_CountsReturned ==
    (pc = "done" /\ result.st = "ok") => (result.up = up /\ result.down = down)

\* C26: a relay that fails with NotConnected makes serve return success; a
\* relay that fails with any other kind makes serve return that error.
C26_NotConnectedIsClean ==
    (pc = "done" /\ output.r \in RelayErrorKinds) =>
        IF output.r = "NotConnected" THEN result.st = "ok"
        ELSE result = Fail(Io(output.r))

C26_Witness == pc = "done" /\ output.r = "NotConnected" /\ result.st = "ok" /\ up > 0

(***************************************************************************)
(* Properties of the SOCKS5 dialers.                                       *)
(***************************************************************************)
\* The methods of the greeting the dialer wrote: VER, NMETHODS, METHODS.
GreetingOffered == {out[2 + k] : k \in 1..out[2]}

\* C27: the greeting of the SOCKS5 dialer offers NoAuth always and
\* UsernameAndPassword exactly when it has credentials; it writes the
\* sub-negotiation only when the server selected UsernameAndPassword, and
\* always when the server selected it from the offer; it writes the DstRequest
\* only after the method reply and, if it negotiated, the auth reply.
C27_GreetingThenRequest ==
    /\ Seen("w:greeting") =>
          /\ NO_AUTHENTICATION_REQUIRED \in GreetingOffered
          /\ USERNAME_AND_PASSWORD \in GreetingOffered <=> auth.t = "Basic"
    /\ Seen("w:auth") => (output.method = USERNAME_AND_PASSWORD /\ Before("r:method", "w:auth"))
    /\ (pc = "d:request" /\ output.method = USERNAME_AND_PASSWORD /\ auth.t = "Basic")
          => Seen("w:auth")
    /\ Seen("w:request") =>
          /\ Before("r:method", "w:request")
          /\ Seen("w:auth") => (Seen("r:auth") /\ Before("r:auth", "w:request"))

\* The name of a REP code.
RepName(code) ==
    CASE code = 1 -> "GeneralSocksServerFailure"
      [] code = 2 -> "ConnectionNotAllowedByRuleset"
      [] code = 3 -> "NetworkUnreachable"
      [] code = 4 -> "HostUnreachable"
      [] code = 5 -> "ConnectionRefused"
      [] code = 6 -> "TtlExpired"
      [] code = 7 -> "CommandNotSupported"
      [] code = 8 -> "AddressTypeNotSupported"
      [] OTHER -> "-"

\* The error is the one of that name, whether a variant, an io::ErrorKind or
\* the kind wrapped in an io::Error.
Named(e, name) == e.t = name \/ e.k = name \/ e.c = name

\* C28: once the DstReply is read, the SOCKS5 dialer returns a stream exactly
\* when REP is 0x00, and for each REP from 0x01 to 0x08 it fails with the
\* error named for that code.
C28_RepDecides ==
    (input.proto = "socks5" /\ Seen("r:reply")) =>
        /\ Returned
        /\ result = Stream <=> output.rep = 0
        /\ output.rep \in 1..8 => (result.st = "err" /\ Named(result.err, RepName(output.rep)))

\* C29: a netway proxy dialer that fails once the TCP connection to the proxy
\* is established returns ProxyServerUnreachable; one that fails to establish
\* it returns the error of the connect, its kind unchanged.
C29_FailureKinds ==
    (impl = "netway" /\ pc = "done") =>
        /\ (Seen("tcp:ok") /\ result.st = "err") => result = Fail(E("ProxyServerUnreachable"))
        /\ Seen("tcp:err") => (result.st = "err" /\ Named(result.err, output.tcp))

(***************************************************************************)
(* Properties of the accept loops.                                         *)
(***************************************************************************)
\* C30: once the accept-loop task is cancelled, no connection task it spawned
\* is still serving, and none relays a byte afterwards.
C30_TasksCancelledWithLoop ==
    pc = "cancelled" =>
        /\ \A c \in Conns : output[c].st # "serve"
        /\ ~SomeAfter("cancel", "relay:up")

(***************************************************************************)
(* Properties of MethodRequest and MethodReply.                            *)
(***************************************************************************)
\* The request is 0x05, N and one id octet per method, and reads back as the
\* same methods in the same order; the reply is two octets.
MethodsRoundTrip ==
    LET n == Len(input.methods)
    IN  /\ Len(output.bytes) = 2 + n
        /\ output.bytes[1] = SOCKS_VERSION
        /\ output.bytes[2] = n
        /\ \A k \in 1..n : output.bytes[2 + k] = Method_id(input.methods[k])
        /\ Len(output.reply) = 2
        /\ output.read.ok
        /\ output.read.methods = input.methods

\* The payload of every IanaAssigned of the list is in the IANA range.
IanaInRange ==
    \A k \in 1..Len(input.methods) :
        input.methods[k].v = "IanaAssigned" =>
            (input.methods[k].n >= IANA_ASSIGNED_MIN /\ input.methods[k].n <= IANA_ASSIGNED_MAX)

\* C31: every list of at most 255 methods, of any Method values, is written
\* as 2+N octets (0x05, N, the ids) and read back as the same methods in the
\* same order; a MethodReply is written as 2 octets.
C31_AnyMethodsRoundTrip == pc = "done" => MethodsRoundTrip

\* C31, for the methods whose IanaAssigned payload is in 0x03..0x7f.
C31_RoundTrip == (pc = "done" /\ IanaInRange) => MethodsRoundTrip

C31_Witness ==
    /\ pc = "done"
    /\ Len(input.methods) = MaxMethods
    /\ \E k \in 1..Len(input.methods) : input.methods[k] = Method("IanaAssigned", IANA_ASSIGNED_MAX)
    /\ output.read.ok

(***************************************************************************)
(* Properties of the rule parsers.                                         *)
(***************************************************************************)
Fields == Split(input, ",")

\* The arguments of the rule string: its fields after the third.
HasForceRemoteDns ==
    \E k \in 4..Len(Fields) : Fields[k] = << "force-remote-dns" >>

\* C32: a rule whose decision is proxy parses to Proxy{remote_dns: true} if
\* force-remote-dns is among its arguments, and to Proxy{remote_dns: false}
\* if it is not.
C32_ForceRemoteDns ==
    (pc = "parsed" /\ output.first.ok /\ output.first.decision.d = "Proxy") =>
        (output.first.decision.remote_dns <=> HasForceRemoteDns)

KnownTags == {"DOMAIN", "DOMAIN-SUFFIX", "DOMAIN-REGEX", "DOMAIN-KEYWORD", "IPV4", "IPV6",
              "IP-CIDR", "IP-CIDR6"}

TagOf(f) == IF Len(f) = 1 THEN Upper(f[1]) ELSE ""

\* What is wrong with the pattern field f under the tag, "-" if nothing is;
\* intKind is the kind expected for a prefix that is not a number.
PatternFault(tag, f, intKind) ==
    CASE tag = "DOMAIN-REGEX" /\ f = << "(" >> -> "InvalidRegex"
      [] tag \in {"IPV4", "IPV6"} /\ ~IpAddrParse(f).ok -> "InvalidAddr"
      [] tag \in {"IP-CIDR", "IP-CIDR6"} ->
            LET parts == Split(f, "/")
            IN  IF Len(parts) # 2 THEN "InvalidSubnet"
                ELSE IF ~IpAddrParse(parts[1]).ok THEN "InvalidAddr"
                ELSE IF ~UsizeParse(parts[2]).ok THEN intKind
                ELSE "-"
      [] OTHER -> "-"

\* The error of the first check the rule string fails, "-" if it fails none.
FirstFault(intKind) ==
    IF Len(Fields) < 3 THEN "InvalidRule"
    ELSE IF TagOf(Fields[1]) \notin KnownTags THEN "UnknownRule"
    ELSE IF PatternFault(TagOf(Fields[1]), Fields[2], intKind) # "-"
    THEN PatternFault(TagOf(Fields[1]), Fields[2], intKind)
    ELSE IF Len(Fields[3]) # 1 \/ Lower(Fields[3][1]) \notin {"direct", "deny", "proxy", "default"}
    THEN "InvalidDecision"
    ELSE "-"

SixKinds == {"InvalidRule", "InvalidDecision", "InvalidRegex", "InvalidAddr", "InvalidSubnet",
             "UnknownRule"}

FixedOnWire == output.len_writed /\ output.rest = <<>>

\* The stream ends before the length octet and the bytes have arrived.
FixedCutShort == input.cut >= 0 /\ input.cut < 1 + Len(input.b)

\* C34: for every b of at most 255 octets, write_fixed(b) emits the octet |b|
\* and then b; read_to_fixed_bytes on that, however the stream splits it into
\* short reads, returns b, has consumed exactly 1+|b| octets and left what
\* follows unread; it fails with UnexpectedEof if the stream ends before
\* 1+|b| octets have arrived.
C34_FixedRoundTrip ==
    /\ FixedOnWire => output.wire = << Len(input.b) >> \o input.b
    /\ (pc = "done" /\ FixedOnWire) =>
          IF FixedCutShort
          THEN ~output.ok /\ output.err = "UnexpectedEof"
          ELSE /\ output.ok
               /\ output.buf = input.b
               /\ output.read = 1 + Len(input.b)
               /\ output.stream = IF input.cut < 0 THEN input.tail ELSE <<>>

\* The longest b read back, the octet that follows it left on the stream.
C34_Witness ==
    /\ pc = "done"
    /\ output.ok
    /\ Len(input.b) = U8Max
    /\ input.tail # <<>> /\ input.cut < 0
    /\ output.stream = input.tail

(***************************************************************************)
(* Properties of the servers when the dialer fails.                        *)
(***************************************************************************)
\* The dialer returned an error to the server.
DialerFailed == pc = "done" /\ conn.err # NoErr

\* The REP the server's own table gives the dialer's error.
MappedRep == IF impl = "netway" THEN Rep_from_err(conn.err) ELSE Socks_rep_of(conn.err)

\* C35: when the dialer fails and the reply can be written, the SOCKS5 server
\* has written one DstReply, with the REP mapped from the error and the bound
\* address 0.0.0.0:0, and returns the dialer's error.
C35_FailureReply ==
    (DialerFailed /\ Seen("w:reply")) =>
        /\ Cardinality(At("w:reply")) = 1
        /\ LastBytes(10) = << SOCKS_VERSION, RepCode(MappedRep), 0, DST_IPV4, 0, 0, 0, 0, 0, 0 >>
        /\ result = Fail(conn.err)

(***************************************************************************)
(* Properties of the HTTP CONNECT dialer of netway.                        *)
(***************************************************************************)
NetwayHttpReturned ==
    impl = "netway" /\ input.proto \in {"http", "https"} /\ output.read /\ pc = "done"

\* The status line has its three parts and every header line its ':'.
WellFormed(r) == r.line = "full" /\ r.words = 1 /\ r.colon

\* C36: when the response carries Content-Length n > 0 the dialer has read
\* exactly n octets of body when it returns the stream, and nothing after the
\* header block otherwise; no other header changes how many octets it reads
\* or whether a 200 yields the stream.
C36_ContentLengthBody ==
    NetwayHttpReturned =>
        /\ result = Stream => output.body = output.http.clen
        /\ (output.http.status = "200" /\ WellFormed(output.http)) => result = Stream

\* The proxy closed before the status line, or sent a status line of fewer
\* than three parts, or a header line without ':'.
Malformed(r) == r.line \in {"eof", "short"} \/ ~r.colon

\* C39: when the proxy closes before the status line, or sends a status line
\* of fewer than three parts, or a header line without ':', the netway HTTP
\* CONNECT dialer shuts the proxy stream down and returns
\* ProxyServerUnreachable; it never panics.
C39_MalformedResponse ==
    (impl = "netway" /\ input.proto \in {"http", "https"} /\ pc = "done") =>
        /\ result.st # "panic"
        /\ (Seen("w:connect") /\ Malformed(output.http)) =>
              (Seen("shutdown:proxy") /\ result = Fail(E("ProxyServerUnreachable")))

\* The client and the server of the negotiation agree on the credentials.
CredentialsAccepted == auth.t = "Basic" /\ input.u = auth.u /\ input.p = auth.p

\* The client has written its auth request.
AuthRequestWritten == \E k \in 1..Len(output.log) : output.log[k] = "w:auth"

\* The client has written its DstRequest.
RequestWritten == \E k \in 1..Len(output.log) : output.log[k] = "w:request"

\* The STATUS octet of the Status the server wrote after its Selection.
LastStatus == IF Len(out) >= 4 THEN out[4] ELSE Eof

\* The auth request as the client wrote it: what follows the greeting.
AuthRequestOnWire == SubSeq(output.out, 5, Len(output.out))

\* C37: a proxy-socks client configured with (u, p), negotiating with a
\* proxy-socks server whose authenticator accepts (u, p), writes an auth request
\* that begins with the sub-negotiation version 0x01, passes the
\* sub-negotiation, and goes on to send its DstRequest.
C37_ClientPassesAuth ==
    (CredentialsAccepted /\ AuthRequestWritten) =>
        /\ AuthRequestOnWire[1] = AUTH_VERSION
        /\ result # Fail(IoError("BrokenPipe")) =>
              /\ Seen("r:auth") /\ Seen("w:auth")
              /\ Status_is_succeed(LastStatus)
              /\ output.pc = "done" => RequestWritten

\* C38: evaluating an IpCidr rule against an IP-socket destination ends with
\* a boolean for every IPv4 prefix in 0..32: it never panics or indexes out
\* of bounds.
C38_CidrNeverPanics ==
    (pc = "matched" /\ input.pat.tag = "IpCIDR" /\ input.pat.mask \in 0..32
        /\ input.dst.t = "Socket") =>
        /\ ~output.panic
        /\ output.v \in BOOLEAN

\* Both ingresses have served the address.
BothServed == Len(log) = 2

\* C40: a CONNECT request on the HTTP ingress whose host is an IP literal
\* receives the same policy decision as the same address and port arriving on
\* the SOCKS5 ingress with ATYP = IPv4, so that a request an IP rule denies on
\* one ingress is denied on the other.
C40_SameDecision ==
    BothServed =>
        /\ output.http.conn.decision = output.socks5.conn.decision
        /\ output.http.conn.dialed = << >> <=> output.socks5.conn.dialed = << >>

==========================================================================
